---- MODULE Spec2Model ----
(***************************************************************************)
(* Ruge-Stueben AMG coarsening and interpolation kernels of rocALUTION    *)
(* (src/base/hip/hip_kernels_rsamg_csr.hpp) as a state machine.           *)
(*                                                                         *)
(* Arrays are functions over 0-based index ranges, as in the source.      *)
(* A kernel launch is a sequence of steps, one per row (the thread or the *)
(* lane group that owns the row), taken in any order; `done` holds the    *)
(* rows whose thread has returned.  A row's lanes only write constants    *)
(* (0 or 2 into cf, true into S) and read cells that no lane of the same  *)
(* kernel changes the test of, so one step per row keeps every outcome    *)
(* the lanes can produce.                                                  *)
(*                                                                         *)
(* Floating point values are exact rationals: omega is counted in units   *)
(* of 1/JitterDen, so 1.0f is JitterDen; matrix values are integers.      *)
(***************************************************************************)
EXTENDS Integers, Sequences, FiniteSets, TLC

\* ---------------------------------------------------------------- bounds
NRow == 3          \* rows of the matrices of Spec (dense pattern, any S)
JitterDen == 3     \* resolution of the random jitter seeded into omega
MaxRerun == 1      \* times the caller runs the coarsener again when converged
MaxRound == 4      \* the round counter saturates here
AminDen == 5       \* Amin and Amax are 0.2 times the extrema
WFSIZE == 2        \* lanes that share a row (template parameter WFSIZE)
HASHSIZE == 4      \* slots of a row's hash set / map (template parameter HASHSIZE)

VARIABLES
    nrow,          \* I nrow
    csr_row_ptr,   \* const J* csr_row_ptr, 0..nrow
    csr_col_ind,   \* const I* csr_col_ind, 0..nnz-1
    csr_val,       \* const T* csr_val, 0..nnz-1
    S,             \* bool* S, 0..nnz-1
    omega,         \* float* omega, 0..nrow-1, in units of 1/JitterDen
    cf,            \* int* cf, 0..nrow-1: 0 undecided, 1 coarse, 2 fine
    workspace,     \* bool* workspace, 0..nrow-1
    undecided,     \* bool* undecided, the convergence flag
    pc,            \* the kernel being run, or the host's position in the loop
    done,          \* rows whose thread / lane group has returned from the kernel
    cf0,           \* history: cf when the current round started
    cf_in,         \* history: cf when the running kernel was launched
    cf_rd,         \* history: cf_rd[x], the rows whose lanes read cf[x] in this launch
    cf_wr,         \* history: cf_wr[x], the rows whose lanes wrote cf[x] in this launch
    round,         \* history: rounds started (saturating at MaxRound)
    reruns,        \* history: times the coarsener was run again when converged
    eps,           \* float eps, the rational eps.num / eps.den
    omega0,        \* history: omega as seeded by the caller
    FF1,           \* bool FF1
    grid,          \* the number of row indices the launch grids cover (>= nrow)
    Amin,          \* T* Amin, in units of 1/AminDen; cells appear when written
    Amax,          \* T* Amax, in units of 1/AminDen
    row_nnz,       \* J* row_nnz of the direct count pass
    f2c,           \* I* f2c
    prolong_csr_row_ptr,  \* const J* prolong_csr_row_ptr (direct variant)
    prolong_csr_col_ind,  \* I* prolong_csr_col_ind
    prolong_csr_val,      \* T* prolong_csr_val, exact rationals [n, d]
    row_max,       \* J* row_max of the extended+i estimate pass
    ext_row_nnz,   \* J* row_nnz of the extended+i count pass
    state,         \* I* state of the extended+i count pass
    csr_row_ptr_P, \* const J* csr_row_ptr_P (extended+i variant)
    csr_col_ind_P, \* I* csr_col_ind_P
    csr_val_P,     \* T* csr_val_P, exact rationals [n, d]
    trunc,         \* float trunc, the rational trunc.num / trunc.den
    comp_csr_row_ptr,  \* const J* comp_csr_row_ptr
    comp_csr_col_ind,  \* I* comp_csr_col_ind
    comp_csr_val,      \* T* comp_csr_val, exact rationals [n, d]
    hrow,          \* the row whose lanes are followed one insert at a time
    hmul,          \* the hash of a key is key * hmul modulo HASHSIZE
    sdata,         \* I sdata[HASHSIZE], the slots of that row's hash set
    lane           \* per lane: inserts returned, probes failed, nnz

matVars == <<nrow, csr_row_ptr, csr_col_ind, csr_val, eps, omega0, FF1, grid>>
pmisVars == <<S, omega, cf, workspace, undecided, cf0, cf_in, cf_rd, cf_wr,
              round, reruns>>
directVars == <<Amin, Amax, row_nnz, f2c, prolong_csr_row_ptr,
                prolong_csr_col_ind, prolong_csr_val>>
extpiVars == <<row_max, ext_row_nnz, state, csr_row_ptr_P, csr_col_ind_P,
               csr_val_P>>
compVars == <<trunc, comp_csr_row_ptr, comp_csr_col_ind, comp_csr_val>>
interpVars == <<directVars, extpiVars, compVars>>
setVars == <<hrow, hmul, sdata, lane>>
vars == <<matVars, setVars, pmisVars, pc, done, interpVars>>

\* ---------------------------------------------------------------- helpers
Rows == 0 .. nrow - 1
nnz == csr_row_ptr[nrow]
Entries == 0 .. nnz - 1
RowEntries(row) == csr_row_ptr[row] .. csr_row_ptr[row + 1] - 1

\* the row indices the threads (lane groups) of a launch compute
Launched == 0 .. grid - 1
\* if(row >= nrow) return;
OutOfBoundsMutOffByOne(row) == row > nrow
OutOfBounds(row) == row >= nrow

\* the reads and writes of cf recorded for the running PMIS kernel
NoAccess == [x \in DOMAIN cf |-> {}]
Access(f, cells, row) ==
    [x \in DOMAIN f |-> IF x \in cells THEN f[x] \cup {row} ELSE f[x]]

\* 1.0f in the units of omega
One == JitterDen

Undecided(c) == {r \in DOMAIN c : c[r] = 0}
Decided(c) == {r \in DOMAIN c : c[r] # 0}

SetMin(X) == CHOOSE x \in X : \A y \in X : x <= y
SetMax(X) == CHOOSE x \in X : \A y \in X : x >= y

\* the sum of f over the finite set X of its arguments
RECURSIVE SumF(_, _)
SumF(f, X) ==
    IF X = {} THEN 0
    ELSE LET x == CHOOSE y \in X : TRUE IN f[x] + SumF(f, X \ {x})

\* exact rationals [n, d] with d >= 0; d = 0 is what a division by zero
\* leaves (an infinity or a NaN) and what any arithmetic on it leaves
Rat(x) == [n |-> x, d |-> 1]
RMul(x, y) == [n |-> x.n * y.n, d |-> x.d * y.d]
RDiv(x, y) ==
    IF y.n < 0 THEN [n |-> -(x.n * y.d), d |-> x.d * (-y.n)]
               ELSE [n |-> x.n * y.d, d |-> x.d * y.n]
RAdd(x, y) == [n |-> x.n * y.d + y.n * x.d, d |-> x.d * y.d]
RNeg(x) == [n |-> -x.n, d |-> x.d]
Finite(x) == x.d # 0
REq(x, y) == Finite(x) /\ Finite(y) /\ x.n * y.d = y.n * x.d
RECURSIVE RSum(_, _)
RSum(f, X) ==
    IF X = {} THEN Rat(0)
    ELSE LET x == CHOOSE y \in X : TRUE IN RAdd(f[x], RSum(f, X \ {x}))

\* a cell of an output array is written
Write(f, i, v) == [x \in DOMAIN f \cup {i} |-> IF x = i THEN v ELSE f[x]]

\* the entries of `row` that lane `lid` of its wavefront visits
\* (for(j = row_begin + lid; j < row_end; j += WFSIZE))
LaneEntries(row, lid) ==
    {j \in RowEntries(row) : (j - csr_row_ptr[row]) % WFSIZE = lid}
Lanes == 0 .. WFSIZE - 1

\* wf_reduce_min / wf_reduce_max / wf_reduce_sum over the lanes of a wavefront
wf_reduce_min(x) == SetMin({x[l] : l \in DOMAIN x})
wf_reduce_max(x) == SetMax({x[l] : l \in DOMAIN x})
RECURSIVE SumUpTo(_, _)
SumUpTo(x, n) == IF n < 0 THEN 0 ELSE x[n] + SumUpTo(x, n - 1)
wf_reduce_sum(x) == SumUpTo(x, WFSIZE - 1)

\* --------------------------------- kernel_csr_rs_pmis_strong_influences

\* the values sign[wid] can hold after the scan of `row`: written by the lane
\* that meets the diagonal, left as it was when the row stores no diagonal
SignValues(row) ==
    IF \E j \in RowEntries(row) : csr_col_ind[j] = row
    THEN {csr_val[j] < 0 : j \in {k \in RowEntries(row) : csr_col_ind[k] = row}}
    ELSE BOOLEAN

\* min_a_ik and max_a_ik of one lane after the scan
LaneMin(row, lid) ==
    SetMin({0} \cup {csr_val[j] : j \in {k \in LaneEntries(row, lid) :
                                           csr_col_ind[k] # row}})
LaneMax(row, lid) ==
    SetMax({0} \cup {csr_val[j] : j \in {k \in LaneEntries(row, lid) :
                                           csr_col_ind[k] # row}})

\* cond before it is multiplied by eps
RowExtremum(row, sign) ==
    IF sign THEN wf_reduce_max([l \in Lanes |-> LaneMax(row, l)])
            ELSE wf_reduce_min([l \in Lanes |-> LaneMin(row, l)])

\* col != row && val < cond, with cond = extremum * eps
StrongEntryMutAbs(row, sign, j) ==
    /\ csr_col_ind[j] # row
    /\ csr_val[j] * eps.den <= RowExtremum(row, sign) * eps.num
StrongEntry(row, sign, j) ==
    /\ csr_col_ind[j] # row
    /\ csr_val[j] * eps.den < RowExtremum(row, sign) * eps.num

\* the number of atomicAdd(&omega[c], 1.0f) the lanes of `row` issue
OmegaAddsMutRowIndex(row, strong, c) ==
    IF c = row THEN Cardinality(strong) ELSE 0
OmegaAdds(row, strong, c) ==
    Cardinality({j \in strong : csr_col_ind[j] = c})

strong_influences(row) ==
    /\ pc = "classify"
    /\ row \in Launched \ done
    /\ IF OutOfBounds(row)
       THEN UNCHANGED <<S, omega>>
       ELSE
            /\ \E sign \in SignValues(row) :
                LET strong == {j \in RowEntries(row) : StrongEntry(row, sign, j)} IN
                /\ S' = [j \in DOMAIN S |-> IF j \in strong THEN TRUE ELSE S[j]]
                /\ omega' = [c \in DOMAIN omega |->
                               omega[c] + One * OmegaAdds(row, strong, c)]
    /\ done' = done \cup {row}
    /\ UNCHANGED <<matVars, setVars, cf, workspace, undecided, pc, cf0, cf_in, cf_rd, cf_wr,
                   round, reruns, interpVars>>

\* ------------------------------------------------ PMIS kernels (per row)

\* kernel_csr_rs_pmis_unassigned_to_coarse: the new cf[row]
PromoteCfMutAll(c, w) == IF c = 0 THEN 1 ELSE c
PromoteCfMutStrict(c, w) == IF c = 0 THEN (IF w > One THEN 1 ELSE 2) ELSE c
PromoteCfMutLateThreshold(c, w) ==
    IF c = 0 THEN (IF w >= One + 1 THEN 1 ELSE 2) ELSE c
PromoteCf(c, w) == IF c = 0 THEN (IF w >= One THEN 1 ELSE 2) ELSE c

\* kernel_csr_rs_pmis_unassigned_to_coarse: the flag written to workspace[row]
PromoteFlagMutStale(c, w, old) == IF c = 0 THEN w >= One ELSE old
PromoteFlag(c, w, old) == c = 0 /\ w >= One

unassigned_to_coarse(row) ==
    /\ pc = "promote"
    /\ row \in Launched \ done
    /\ IF OutOfBounds(row)
       THEN UNCHANGED <<cf, workspace, cf_rd, cf_wr>>
       ELSE
            /\ cf' = [cf EXCEPT ![row] = PromoteCf(cf[row], omega[row])]
            /\ workspace' = [workspace EXCEPT
                               ![row] = PromoteFlag(cf[row], omega[row], workspace[row])]
            /\ cf_rd' = Access(cf_rd, {row}, row)
            /\ cf_wr' = Access(cf_wr, {r \in {row} : cf[row] = 0}, row)
    /\ done' = done \cup {row}
    /\ UNCHANGED <<matVars, setVars, S, omega, undecided, pc, cf0, cf_in, round, reruns, interpVars>>

\* kernel_csr_rs_pmis_correct_coarse: the strong entries of `row` whose column
\* was marked coarse in the current iteration
FlaggedEdges(row) ==
    {j \in RowEntries(row) : S[j] /\ workspace[csr_col_ind[j]]}

\* kernel_csr_rs_pmis_correct_coarse: the cells of cf the lane group of `row`
\* sets to 0
CorrectWritesMutTies(row) ==
    IF workspace[row]
    THEN {csr_col_ind[j] : j \in {k \in FlaggedEdges(row) :
                                    omega[row] >= omega[csr_col_ind[k]]}}
         \cup {r \in {row} : \E j \in FlaggedEdges(row) :
                                 omega[row] <= omega[csr_col_ind[j]]}
    ELSE {}
CorrectWritesMutOwnOnly(row) ==
    IF workspace[row]
    THEN {r \in {row} : \E j \in FlaggedEdges(row) :
                            omega[row] < omega[csr_col_ind[j]]}
    ELSE {}
CorrectWritesMutAnyRow(row) ==
    {csr_col_ind[j] : j \in {k \in FlaggedEdges(row) :
                               omega[row] > omega[csr_col_ind[k]]}}
    \cup {r \in {row} : \E j \in RowEntries(row) :
                            S[j] /\ omega[row] < omega[csr_col_ind[j]]}
CorrectWrites(row) ==
    IF workspace[row]
    THEN {csr_col_ind[j] : j \in {k \in FlaggedEdges(row) :
                                    omega[row] > omega[csr_col_ind[k]]}}
         \cup {r \in {row} : \E j \in FlaggedEdges(row) :
                                 omega[row] < omega[csr_col_ind[j]]}
    ELSE {}

correct_coarseMutClearsFlag(row) ==
    /\ pc = "arbitrate"
    /\ row \in Launched \ done
    /\ IF OutOfBounds(row)
       THEN UNCHANGED <<cf, cf_rd, cf_wr, workspace>>
       ELSE
            /\ cf' = [r \in DOMAIN cf |-> IF r \in CorrectWrites(row) THEN 0 ELSE cf[r]]
            /\ cf_rd' = cf_rd
            /\ cf_wr' = Access(cf_wr, CorrectWrites(row), row)
            /\ workspace' = [workspace EXCEPT ![row] = FALSE]
    /\ done' = done \cup {row}
    /\ UNCHANGED <<matVars, setVars, S, omega, undecided, pc, cf0, cf_in, round, reruns, interpVars>>
correct_coarse(row) ==
    /\ pc = "arbitrate"
    /\ row \in Launched \ done
    /\ IF OutOfBounds(row)
       THEN UNCHANGED <<cf, cf_rd, cf_wr>>
       ELSE
            /\ cf' = [r \in DOMAIN cf |-> IF r \in CorrectWrites(row) THEN 0 ELSE cf[r]]
            /\ cf_rd' = cf_rd
            /\ cf_wr' = Access(cf_wr, CorrectWrites(row), row)
    /\ done' = done \cup {row}
    /\ UNCHANGED <<matVars, setVars, S, omega, workspace, undecided, pc, cf0, cf_in, round, reruns, interpVars>>

\* kernel_csr_rs_pmis_coarse_edges_to_fine: some lane of `row` finds a strong
\* entry whose column is coarse
CoarseEdgeMutAnyStrong(row) ==
    \E j \in RowEntries(row) : S[j]
CoarseEdgeMutAnyCoarse(row) ==
    \E j \in RowEntries(row) : cf[csr_col_ind[j]] = 1
CoarseEdgeMutDecided(row) ==
    \E j \in RowEntries(row) : S[j] /\ cf[csr_col_ind[j]] # 0
CoarseEdge(row) ==
    \E j \in RowEntries(row) : S[j] /\ cf[csr_col_ind[j]] = 1

\* the cells of cf the lanes of `row` read: cf[row], and when it is 0 each
\* lane reads the columns of its strong entries in storage order until it
\* meets a coarse one and returns
LaneFineReads(row, lid) ==
    {csr_col_ind[j] : j \in {k \in LaneEntries(row, lid) :
        /\ S[k]
        /\ \A i \in LaneEntries(row, lid) :
              (i < k /\ S[i]) => cf[csr_col_ind[i]] # 1}}
FineReads(row) ==
    {row} \cup (IF cf[row] = 0
                THEN UNION {LaneFineReads(row, lid) : lid \in Lanes}
                ELSE {})

coarse_edges_to_fine(row) ==
    /\ pc = "fine"
    /\ row \in Launched \ done
    /\ IF OutOfBounds(row)
       THEN UNCHANGED <<cf, cf_rd, cf_wr>>
       ELSE
            /\ cf' = IF cf[row] = 0 /\ CoarseEdge(row) THEN [cf EXCEPT ![row] = 2] ELSE cf
            /\ cf_rd' = Access(cf_rd, FineReads(row), row)
            /\ cf_wr' = Access(cf_wr, {r \in {row} : cf[row] = 0 /\ CoarseEdge(row)}, row)
    /\ done' = done \cup {row}
    /\ UNCHANGED <<matVars, setVars, S, omega, workspace, undecided, pc, cf0, cf_in, round, reruns, interpVars>>

\* kernel_csr_rs_pmis_check_undecided: the thread of `row` sets the flag
ObservesUndecidedMutFine(row) == cf[row] = 2
ObservesUndecidedMutFirst(row) == row = 0 /\ cf[row] = 0
ObservesUndecided(row) == cf[row] = 0

check_undecided(row) ==
    /\ pc = "check"
    /\ row \in Launched \ done
    /\ IF OutOfBounds(row)
       THEN UNCHANGED <<undecided, cf_rd>>
       ELSE
            /\ undecided' = IF ObservesUndecided(row) THEN TRUE ELSE undecided
            /\ cf_rd' = Access(cf_rd, {row}, row)
    /\ done' = done \cup {row}
    /\ UNCHANGED <<matVars, setVars, S, omega, cf, workspace, pc, cf0, cf_in, cf_wr,
                   round, reruns, interpVars>>

\* --------------------------------------- kernel_csr_rs_direct_interp_nnz

\* the strong entries of `row` whose column is coarse
StrongCoarse(row) ==
    {j \in RowEntries(row) : S[j] /\ cf[csr_col_ind[j]] = 1}

\* amin and amax after the first loop, times 0.2: the stored number is the
\* extremum itself, read in units of 1/AminDen
DirectAmin(row) == SetMin({0} \cup {csr_val[j] : j \in StrongCoarse(row)})
DirectAmax(row) == SetMax({0} \cup {csr_val[j] : j \in StrongCoarse(row)})

\* val <= amin || val >= amax
BeyondBand(val, amin, amax) == val * AminDen <= amin \/ val * AminDen >= amax

\* the entries the second loop counts
DirectCountedMutAllStrong(row) == {j \in RowEntries(row) : S[j]}
DirectCounted(row) ==
    {j \in StrongCoarse(row) :
        BeyondBand(csr_val[j], DirectAmin(row), DirectAmax(row))}

DirectNnzMutNoCoarse(row) == Cardinality(DirectCounted(row))
DirectNnz(row) == IF cf[row] = 1 THEN 1 ELSE Cardinality(DirectCounted(row))

direct_interp_nnz(row) ==
    /\ pc = "direct_nnz"
    /\ row \in Launched \ done
    /\ IF OutOfBounds(row)
       THEN UNCHANGED <<f2c, Amin, Amax, row_nnz>>
       ELSE
            /\ f2c' = Write(f2c, row, IF cf[row] = 1 THEN 1 ELSE 0)
            /\ Amin' = IF cf[row] = 1 THEN Amin ELSE Write(Amin, row, DirectAmin(row))
            /\ Amax' = IF cf[row] = 1 THEN Amax ELSE Write(Amax, row, DirectAmax(row))
            /\ row_nnz' = Write(row_nnz, row, DirectNnz(row))
    /\ done' = done \cup {row}
    /\ UNCHANGED <<matVars, setVars, pmisVars, compVars, pc, extpiVars, prolong_csr_row_ptr,
                   prolong_csr_col_ind, prolong_csr_val>>

\* ---------------------------------------- kernel_csr_rs_extpi_interp_nnz

\* the strong off-diagonal entries of `row`
StrongOff(row) == {j \in RowEntries(row) : S[j] /\ csr_col_ind[j] # row}

\* the entries of the non-coarse point c that pass the three tests of the
\* inner loop: strong, off-diagonal, coarse column
SecondHop(c) ==
    {k \in RowEntries(c) :
        S[k] /\ csr_col_ind[k] # c /\ cf[csr_col_ind[k]] = 1}

\* the inner loop runs in storage order and, with FF1, breaks at its first hit
HopTakenMutLast(c) ==
    IF FF1 /\ SecondHop(c) # {} THEN {SetMax(SecondHop(c))} ELSE SecondHop(c)
HopTaken(c) ==
    IF FF1 /\ SecondHop(c) # {} THEN {SetMin(SecondHop(c))} ELSE SecondHop(c)

\* the keys inserted for entry j of the outer loop
EntryKeys(j) ==
    IF cf[csr_col_ind[j]] = 1
    THEN {csr_col_ind[j]}
    ELSE {csr_col_ind[k] : k \in HopTaken(csr_col_ind[j])}

\* the keys the lanes of `row` insert into the row's hash set
ExtKeys(row) == UNION {EntryKeys(j) : j \in StrongOff(row)}

\* unordered_set::insert returns 1 for the first insert of a key and 0 for a
\* duplicate: over all lanes the returned values sum to the number of keys
InsertCount(keys) == Cardinality(keys)

ExtNnz(row) == IF cf[row] = 1 THEN 1 ELSE InsertCount(ExtKeys(row))

extpi_interp_nnz(row) ==
    /\ pc = "extpi_nnz"
    /\ row \in Launched \ done
    /\ IF OutOfBounds(row)
       THEN UNCHANGED <<ext_row_nnz, state>>
       ELSE
            /\ ext_row_nnz' = Write(ext_row_nnz, row, ExtNnz(row))
            /\ state' = Write(state, row, IF cf[row] = 1 THEN 1 ELSE 0)
    /\ done' = done \cup {row}
    /\ UNCHANGED <<matVars, setVars, pmisVars, compVars, pc, directVars, row_max, csr_row_ptr_P,
                   csr_col_ind_P, csr_val_P>>

\* ------------- kernel_csr_rs_extpi_interp_nnz, one lane insert at a time

\* map.empty_key(): the key an empty slot of the hash set or map holds, the largest
\* value of the key type
empty_key == 2147483647

\* the insert calls of lane `lid` of `row`, as <<j, k>>: j the entry of the
\* outer loop, k the entry of the inner loop, -1 for a coarse col_j; the lane
\* issues them in increasing <<j, k>>
LaneInsertsMutDirectOnly(row, lid) ==
    LET J == LaneEntries(row, lid) \cap StrongOff(row) IN
    {<<j, -1>> : j \in {i \in J : cf[csr_col_ind[i]] = 1}}
LaneInserts(row, lid) ==
    LET J == LaneEntries(row, lid) \cap StrongOff(row) IN
    {<<j, -1>> : j \in {i \in J : cf[csr_col_ind[i]] = 1}}
    \cup UNION {{<<j, k>> : k \in HopTaken(csr_col_ind[j])} :
                    j \in {i \in J : cf[csr_col_ind[i]] # 1}}
\* the call the lane issues after n calls have returned
NextInsert(row, lid, n) ==
    CHOOSE p \in LaneInserts(row, lid) :
        Cardinality({q \in LaneInserts(row, lid) :
                        q[1] < p[1] \/ (q[1] = p[1] /\ q[2] < p[2])}) = n

\* unordered_set::insert, one probe: the slot tried after `off` failed
\* probes; a compare-and-swap of the empty key for the key returns 1 when
\* the slot was empty, the call returns 0 when the slot holds the key, and
\* the next slot is tried otherwise (0 is returned when no slot is left)
ProbeSlot(key, off) == (key * hmul + off) % HASHSIZE

extpi_nnz_insert(lid) ==
    /\ pc = "extpi_nnz_lanes"
    /\ lane[lid].n < Cardinality(LaneInserts(hrow, lid))
    /\ LET p == NextInsert(hrow, lid, lane[lid].n)
           key == csr_col_ind[IF p[2] = -1 THEN p[1] ELSE p[2]]
           slot == ProbeSlot(key, lane[lid].off)
       IN
        IF sdata[slot] = empty_key
        THEN /\ sdata' = [sdata EXCEPT ![slot] = key]
             /\ lane' = [lane EXCEPT ![lid] =
                            [n |-> @.n + 1, off |-> 0, nnz |-> @.nnz + 1]]
        ELSE IF sdata[slot] = key \/ lane[lid].off = HASHSIZE - 1
        THEN /\ sdata' = sdata
             /\ lane' = [lane EXCEPT ![lid] =
                            [n |-> @.n + 1, off |-> 0, nnz |-> @.nnz]]
        ELSE /\ sdata' = sdata
             /\ lane' = [lane EXCEPT ![lid].off = @ + 1]
    /\ UNCHANGED <<matVars, hrow, hmul, pmisVars, pc, done, interpVars>>

\* every lane has left its loop: wf_reduce_sum and the store by the last lane
extpi_nnz_reduce ==
    /\ pc = "extpi_nnz_lanes"
    /\ \A lid \in Lanes : lane[lid].n = Cardinality(LaneInserts(hrow, lid))
    /\ ext_row_nnz' = Write(ext_row_nnz, hrow,
                            wf_reduce_sum([lid \in Lanes |-> lane[lid].nnz]))
    /\ state' = Write(state, hrow, 0)
    /\ pc' = "end"
    /\ UNCHANGED <<matVars, setVars, pmisVars, done, directVars, compVars, row_max,
                   csr_row_ptr_P, csr_col_ind_P, csr_val_P>>

\* -------------------------------------- kernel_csr_rs_direct_interp_fill

\* the sum of the values of a set of entries
SumVals(J) == SumF([j \in J |-> csr_val[j]], J)

\* diag after the first loop: the value of the last diagonal entry met, 0
\* when the row stores none
DirectDiag(row) ==
    LET D == {j \in RowEntries(row) : csr_col_ind[j] = row} IN
    IF D = {} THEN 0 ELSE csr_val[SetMax(D)]

OffDiag(row) == {j \in RowEntries(row) : csr_col_ind[j] # row}
NegOff(row) == {j \in OffDiag(row) : csr_val[j] < 0}
PosOff(row) == {j \in OffDiag(row) : csr_val[j] >= 0}

a_num(row) == SumVals(NegOff(row))
a_den(row) == SumVals(NegOff(row) \cap StrongCoarse(row))
d_neg(row) ==
    SumVals({j \in NegOff(row) \cap StrongCoarse(row) :
                csr_val[j] * AminDen > Amin[row]})
b_num(row) == SumVals(PosOff(row))
b_den(row) == SumVals(PosOff(row) \cap StrongCoarse(row))
d_pos(row) ==
    SumVals({j \in PosOff(row) \cap StrongCoarse(row) :
                csr_val[j] * AminDen < Amax[row]})

\* abs(x) > 1e-32 and abs(x) < 1e-32 on the integer sums of the model
NonDegenerate(x) == x # 0
Degenerate(x) == x = 0

cf_neg(row) ==
    IF NonDegenerate(a_den(row) - d_neg(row))
    THEN RDiv(Rat(a_den(row)), Rat(a_den(row) - d_neg(row))) ELSE Rat(1)
cf_pos(row) ==
    IF NonDegenerate(b_den(row) - d_pos(row))
    THEN RDiv(Rat(b_den(row)), Rat(b_den(row) - d_pos(row))) ELSE Rat(1)

\* diag after the positive numerator has been folded in
FoldedDiag(row) ==
    IF b_num(row) > 0 /\ Degenerate(b_den(row))
    THEN DirectDiag(row) + b_num(row) ELSE DirectDiag(row)

alpha(row) ==
    IF NonDegenerate(a_den(row))
    THEN RDiv(RMul(RNeg(cf_neg(row)), Rat(a_num(row))),
              Rat(FoldedDiag(row) * a_den(row)))
    ELSE Rat(0)
beta(row) ==
    IF NonDegenerate(b_den(row))
    THEN RDiv(RMul(RNeg(cf_pos(row)), Rat(b_num(row))),
              Rat(FoldedDiag(row) * b_den(row)))
    ELSE Rat(0)

\* the entries the last loop writes: strong, coarse column, not strictly
\* inside the band read back from Amin[row] and Amax[row]
DirectFilledMutNoBand(row) == StrongCoarse(row)
DirectFilled(row) ==
    {j \in StrongCoarse(row) :
        ~(csr_val[j] * AminDen > Amin[row] /\ csr_val[j] * AminDen < Amax[row])}

\* the entry j is the i-th one written, i = number of written entries stored
\* before it: the loop runs in storage order and row_P is incremented per write
FillSlotMutSorted(row, j) ==
    prolong_csr_row_ptr[row]
        + Cardinality({k \in DirectFilled(row) : csr_col_ind[k] < csr_col_ind[j]})
FillSlot(row, j) ==
    prolong_csr_row_ptr[row] + Cardinality({k \in DirectFilled(row) : k < j})

\* the cells of P the thread of `row` writes, as index -> entry of the row
\* (the coarse row's single cell is keyed by -1)
DirectWrites(row) ==
    IF cf[row] = 1
    THEN [x \in {prolong_csr_row_ptr[row]} |-> -1]
    ELSE [x \in {FillSlot(row, j) : j \in DirectFilled(row)} |->
            CHOOSE j \in DirectFilled(row) : FillSlot(row, j) = x]

DirectColOf(row, j) == IF j = -1 THEN f2c[row] ELSE f2c[csr_col_ind[j]]
DirectValOf(row, j) ==
    IF j = -1 THEN Rat(1)
    ELSE RMul(IF csr_val[j] < 0 THEN alpha(row) ELSE beta(row), Rat(csr_val[j]))

direct_interp_fill(row) ==
    /\ pc = "direct_fill"
    /\ row \in Launched \ done
    /\ IF OutOfBounds(row)
       THEN UNCHANGED <<prolong_csr_col_ind, prolong_csr_val>>
       ELSE
            /\ LET W == DirectWrites(row) IN
                /\ prolong_csr_col_ind' =
                     [x \in DOMAIN prolong_csr_col_ind \cup DOMAIN W |->
                        IF x \in DOMAIN W THEN DirectColOf(row, W[x])
                                          ELSE prolong_csr_col_ind[x]]
                /\ prolong_csr_val' =
                     [x \in DOMAIN prolong_csr_val \cup DOMAIN W |->
                        IF x \in DOMAIN W THEN DirectValOf(row, W[x])
                                          ELSE prolong_csr_val[x]]
    /\ done' = done \cup {row}
    /\ UNCHANGED <<matVars, setVars, pmisVars, compVars, pc, extpiVars, Amin, Amax, row_nnz, f2c,
                   prolong_csr_row_ptr>>

\* ---------------------------------------- kernel_csr_rs_extpi_interp_max

\* what one lane adds to its row_nnz for the entry j of the outer loop
MaxCountOfMutCoarseOnly(j) ==
    IF cf[csr_col_ind[j]] = 1 THEN 1 ELSE 0
MaxCountOf(j) ==
    IF cf[csr_col_ind[j]] = 1 THEN 1 ELSE Cardinality(HopTaken(csr_col_ind[j]))

LaneMaxCount(row, lid) ==
    LET J == LaneEntries(row, lid) \cap StrongOff(row) IN
    SumF([j \in J |-> MaxCountOf(j)], J)

ExtMax(row) ==
    IF cf[row] = 1 THEN 1
    ELSE wf_reduce_sum([l \in Lanes |-> LaneMaxCount(row, l)])

extpi_interp_max(row) ==
    /\ pc = "extpi_max"
    /\ row \in Launched \ done
    /\ IF OutOfBounds(row)
       THEN UNCHANGED <<row_max>>
       ELSE
            /\ row_max' = Write(row_max, row, ExtMax(row))
    /\ done' = done \cup {row}
    /\ UNCHANGED <<matVars, setVars, pmisVars, compVars, pc, directVars, ext_row_nnz, state,
                   csr_row_ptr_P, csr_col_ind_P, csr_val_P>>

\* --------------------------------------- kernel_csr_rs_extpi_interp_fill

\* idx after the while loop for the occupied slot that holds `col`: the slots
\* cnt < HASHSIZE with col > map.get_key(cnt); the map holds the keys the
\* first loop inserted, every other slot holds the empty key
ExtRankMutCountEmpty(row, col) ==
    Cardinality({k \in ExtKeys(row) : col > k})
        + (HASHSIZE - Cardinality(ExtKeys(row)))
ExtRank(row, col) ==
    Cardinality({k \in ExtKeys(row) : col > k})
        + (IF col > empty_key THEN HASHSIZE - Cardinality(ExtKeys(row)) ELSE 0)

\* the cells of P the lane group of `row` writes, as index -> row or key whose
\* coarse number is written there
ExtWrites(row) ==
    IF cf[row] = 1
    THEN [x \in {csr_row_ptr_P[row]} |-> row]
    ELSE [x \in {csr_row_ptr_P[row] + ExtRank(row, col) : col \in ExtKeys(row)} |->
            CHOOSE col \in ExtKeys(row) : csr_row_ptr_P[row] + ExtRank(row, col) = x]

\* const T* diag: the caller passes the diagonal of the matrix (0 for a row
\* that stores none)
diag ==
    [r \in Rows |->
        LET D == {j \in RowEntries(r) : csr_col_ind[j] = r}
        IN IF D = {} THEN 0 ELSE csr_val[SetMin(D)]]
pos_ii(row) == diag[row] >= 0

\* the entries k of `row` with k in F^S_i: off-diagonal, strong, FINE column
FineStrong(row) ==
    {k \in RowEntries(row) :
        csr_col_ind[k] # row /\ S[k] /\ cf[csr_col_ind[k]] = 2}

\* the entries of row col_ik summed into sum_l before the division: the entry
\* of column `row`, and the coarse columns held by the map, each only if its
\* sign differs from that of the diagonal of `row`
SumLEntries(row, k) ==
    {l \in RowEntries(csr_col_ind[k]) :
        /\ pos_ii(row) # (csr_val[l] >= 0)
        /\ \/ csr_col_ind[l] = row
           \/ /\ cf[csr_col_ind[l]] = 1
              /\ csr_col_ind[l] \in ExtKeys(row)}
\* a_ki, if present (the last one stored), else zero
val_ki(row, k) ==
    LET J == {l \in RowEntries(csr_col_ind[k]) : csr_col_ind[l] = row}
    IN IF J = {} THEN 0 ELSE csr_val[SetMax(J)]
\* sum_l = val_ik / sum_l
sum_l(row, k) == RDiv(Rat(csr_val[k]), Rat(SumVals(SumLEntries(row, k))))

\* the entries l of row col_ik whose val_kl * sum_l is added to the map's
\* value of `key`: coarse column, sign different from a_kk; map.add changes
\* nothing for a key the map does not hold
HopAdds(row, k, key) ==
    {l \in RowEntries(csr_col_ind[k]) :
        /\ csr_col_ind[l] = key
        /\ cf[key] = 1
        /\ key \in ExtKeys(row)
        /\ (diag[csr_col_ind[k]] >= 0) # (csr_val[l] >= 0)}
\* the entries a_ik of `row` added to the map's value of `key`
DirectAdds(row, key) ==
    {k \in RowEntries(row) :
        /\ csr_col_ind[k] # row
        /\ csr_col_ind[k] = key
        /\ cf[key] = 1
        /\ key \in ExtKeys(row)}
\* map.get_val of `key` after the numerical loop: inserted with value zero,
\* then the sum of what the lanes added
MapVal(row, key) ==
    LET f == [k \in FineStrong(row) |->
                IF HopAdds(row, k, key) = {} THEN Rat(0)
                ELSE RMul(Rat(SumVals(HopAdds(row, k, key))), sum_l(row, k))]
    IN RAdd(RSum(f, FineStrong(row)), Rat(SumVals(DirectAdds(row, key))))

\* sum_k and sum_n over all lanes
sum_k(row) ==
    LET K == {k \in FineStrong(row) :
                (diag[csr_col_ind[k]] >= 0) # (val_ki(row, k) >= 0)}
        f == [k \in K |-> RMul(Rat(val_ki(row, k)), sum_l(row, k))]
    IN RSum(f, K)
sum_n(row) ==
    SumVals({k \in RowEntries(row) :
                /\ csr_col_ind[k] # row
                /\ ~S[k]
                /\ DirectAdds(row, csr_col_ind[k]) = {}})
\* -1 / (a_ii_tilde + a_ii)
a_ii_tilde(row) ==
    RDiv(Rat(-1), RAdd(RAdd(Rat(sum_n(row)), sum_k(row)), Rat(diag[row])))
ExtValOf(row, key) ==
    IF cf[row] = 1 THEN Rat(1) ELSE RMul(a_ii_tilde(row), MapVal(row, key))

extpi_interp_fill(row) ==
    /\ pc = "extpi_fill"
    /\ row \in Launched \ done
    /\ IF OutOfBounds(row)
       THEN UNCHANGED <<csr_col_ind_P, csr_val_P>>
       ELSE
            /\ LET W == ExtWrites(row) IN
                /\ csr_col_ind_P' =
                    [x \in DOMAIN csr_col_ind_P \cup DOMAIN W |->
                        IF x \in DOMAIN W THEN f2c[W[x]] ELSE csr_col_ind_P[x]]
                /\ csr_val_P' =
                    [x \in DOMAIN csr_val_P \cup DOMAIN W |->
                        IF x \in DOMAIN W THEN ExtValOf(row, W[x]) ELSE csr_val_P[x]]
    /\ done' = done \cup {row}
    /\ UNCHANGED <<matVars, setVars, pmisVars, compVars, pc, directVars, row_max, ext_row_nnz,
                   state, csr_row_ptr_P>>

\* ------------------------- kernel_csr_rs_extpi_interp_compress_nnz / fill

hip_abs(x) == IF x < 0 THEN -x ELSE x

\* hip_abs(val) >= threshold, with threshold = row_max * trunc
KeptMutStrict(j, rmax) == hip_abs(csr_val[j]) * trunc.den > rmax * trunc.num
Kept(j, rmax) == hip_abs(csr_val[j]) * trunc.den >= rmax * trunc.num

\* the count pass: each lane's absolute maximum, reduced over the wavefront
CompLaneMax(row, lid) ==
    SetMax({0} \cup {hip_abs(csr_val[j]) : j \in LaneEntries(row, lid)})
CompRowMax(row) == wf_reduce_max([lid \in Lanes |-> CompLaneMax(row, lid)])
CompLaneNnz(row, lid) ==
    Cardinality({j \in LaneEntries(row, lid) : Kept(j, CompRowMax(row))})
CompNnz(row) == wf_reduce_sum([lid \in Lanes |-> CompLaneNnz(row, lid)])

compress_nnz(row) ==
    /\ pc = "compress_nnz"
    /\ row \in Launched \ done
    /\ IF OutOfBounds(row)
       THEN UNCHANGED <<row_nnz>>
       ELSE
            /\ row_nnz' = Write(row_nnz, row, CompNnz(row))
    /\ done' = done \cup {row}
    /\ UNCHANGED <<matVars, setVars, pmisVars, compVars, pc, extpiVars, Amin, Amax, f2c,
                   prolong_csr_row_ptr, prolong_csr_col_ind, prolong_csr_val>>

\* the fill pass: one thread per row
FillRowMax(row) == SetMax({0} \cup {hip_abs(csr_val[j]) : j \in RowEntries(row)})
row_sum(row) == SumF(csr_val, RowEntries(row))
KeptEntries(row) == {j \in RowEntries(row) : Kept(j, FillRowMax(row))}
comp_row_sum(row) == SumF(csr_val, KeptEntries(row))
scaleMutOne(row) == Rat(1)
scale(row) == RDiv(Rat(row_sum(row)), Rat(comp_row_sum(row)))
CompSlot(row, j) ==
    comp_csr_row_ptr[row] + Cardinality({k \in KeptEntries(row) : k < j})
CompRange(row) == comp_csr_row_ptr[row] .. comp_csr_row_ptr[row + 1] - 1
\* the cells the thread of `row` leaves in comp_csr_col_ind and comp_csr_val:
\* a kept entry is copied to its slot, then the cells of the row's range are
\* multiplied by scale
CompColWrites(row) ==
    {<<CompSlot(row, j), csr_col_ind[j]>> : j \in KeptEntries(row)}
CompCopied(row) ==
    LET w == {<<CompSlot(row, j), Rat(csr_val[j])>> : j \in KeptEntries(row)}
    IN [x \in DOMAIN comp_csr_val \cup {c[1] : c \in w} |->
            IF \E c \in w : c[1] = x
            THEN (CHOOSE c \in w : c[1] = x)[2]
            ELSE comp_csr_val[x]]
CompScaled(row) ==
    [x \in DOMAIN CompCopied(row) |->
        IF x \in CompRange(row)
        THEN RMul(CompCopied(row)[x], scale(row))
        ELSE CompCopied(row)[x]]

compress_fill(row) ==
    /\ pc = "compress_fill"
    /\ row \in Launched \ done
    /\ IF OutOfBounds(row)
       THEN UNCHANGED <<comp_csr_col_ind, comp_csr_val>>
       ELSE
            /\ comp_csr_col_ind' =
                [x \in DOMAIN comp_csr_col_ind \cup {c[1] : c \in CompColWrites(row)} |->
                    IF \E c \in CompColWrites(row) : c[1] = x
                    THEN (CHOOSE c \in CompColWrites(row) : c[1] = x)[2]
                    ELSE comp_csr_col_ind[x]]
            /\ comp_csr_val' = CompScaled(row)
    /\ done' = done \cup {row}
    /\ UNCHANGED <<matVars, setVars, pmisVars, pc, directVars, extpiVars, trunc,
                   comp_csr_row_ptr>>

\* ------------------------------------------------ the caller's round loop

\* the kernel launched after kernel k has completed
NextKernel(k) ==
    CASE k = "classify" -> "start"
      [] k = "promote" -> "arbitrate"
      [] k = "arbitrate" -> "fine"
      [] k = "fine" -> "check"
      [] k = "check" -> "poll"
      [] k = "direct_nnz" -> "direct_scan"
      [] k = "direct_fill" -> "extpi_max"
      [] k = "extpi_max" -> "extpi_nnz"
      [] k = "extpi_nnz" -> "extpi_scan"
      [] k = "extpi_fill" -> "end"
      [] k = "compress_nnz" -> "compress_scan"
      [] k = "compress_fill" -> "end"

Kernels == {"classify", "promote", "arbitrate", "fine", "check",
            "direct_nnz", "direct_fill", "extpi_max", "extpi_nnz", "extpi_fill",
            "compress_nnz", "compress_fill"}

\* the flag is cleared and a round is started
StartRound ==
    /\ pc = "start"
    /\ undecided' = FALSE
    /\ cf0' = cf
    /\ cf_in' = cf
    /\ cf_rd' = NoAccess
    /\ cf_wr' = NoAccess
    /\ round' = IF round < MaxRound THEN round + 1 ELSE round
    /\ pc' = "promote"
    /\ done' = {}
    /\ UNCHANGED <<matVars, setVars, S, omega, cf, workspace, reruns, interpVars>>

\* every thread of the kernel has returned: the next kernel is launched
KernelEnd ==
    /\ pc \in Kernels
    /\ done = Launched
    /\ pc' = NextKernel(pc)
    /\ done' = {}
    /\ cf_in' = cf
    /\ cf_rd' = NoAccess
    /\ cf_wr' = NoAccess
    /\ UNCHANGED <<matVars, setVars, S, omega, cf, workspace, undecided, cf0, round, reruns, interpVars>>

\* the caller reads the flag: another round, or the loop stops
Poll ==
    /\ pc = "poll"
    /\ pc' = IF undecided THEN "start" ELSE "done"
    /\ UNCHANGED <<matVars, setVars, S, omega, cf, workspace, undecided, done, cf0, cf_in,
                   cf_rd, cf_wr, round, reruns, interpVars>>

\* the coarsener is run once more on its converged result
Rerun ==
    /\ pc = "done"
    /\ reruns < MaxRerun
    /\ reruns' = reruns + 1
    /\ pc' = "start"
    /\ UNCHANGED <<matVars, setVars, S, omega, cf, workspace, undecided, done, cf0, cf_in,
                   cf_rd, cf_wr, round, interpVars>>

\* the caller builds the interpolation from the converged classification
BuildInterp ==
    /\ pc = "done"
    /\ pc' = "direct_nnz"
    /\ UNCHANGED <<matVars, setVars, pmisVars, done, interpVars>>

\* the exclusive prefix sum of the n cells f[0 .. n-1], as a function on 0 .. m
ExclusiveScan(f, n, m) ==
    [i \in 0 .. m |-> SumF(f, {r \in 0 .. n - 1 : r < i})]

\* between the direct count and fill passes the caller turns the coarse flags
\* into the coarse numbering and the row counts into the row pointer of P
DirectScan ==
    /\ pc = "direct_scan"
    /\ f2c' = ExclusiveScan(f2c, nrow, nrow - 1)
    /\ prolong_csr_row_ptr' = ExclusiveScan(row_nnz, nrow, nrow)
    /\ pc' = "direct_fill"
    /\ UNCHANGED <<matVars, setVars, pmisVars, compVars, done, extpiVars, Amin, Amax, row_nnz,
                   prolong_csr_col_ind, prolong_csr_val>>

\* the same between the extended+i count and fill passes, from state and
\* the deduplicated counts
ExtScan ==
    /\ pc = "extpi_scan"
    /\ f2c' = ExclusiveScan(state, nrow, nrow - 1)
    /\ csr_row_ptr_P' = ExclusiveScan(ext_row_nnz, nrow, nrow)
    /\ pc' = "extpi_fill"
    /\ UNCHANGED <<matVars, setVars, pmisVars, compVars, done, row_max, ext_row_nnz, state,
                   csr_col_ind_P, csr_val_P, Amin, Amax, row_nnz, prolong_csr_row_ptr,
                   prolong_csr_col_ind, prolong_csr_val>>

\* between the compressor's count and fill passes the caller turns the row
\* counts into the row pointer of the compressed matrix
CompressScan ==
    /\ pc = "compress_scan"
    /\ comp_csr_row_ptr' = ExclusiveScan(row_nnz, nrow, nrow)
    /\ pc' = "compress_fill"
    /\ UNCHANGED <<matVars, setVars, pmisVars, done, directVars, extpiVars, trunc,
                   comp_csr_col_ind, comp_csr_val>>

\* the output arrays of the interpolation passes before any cell is written
\* no row is followed lane by lane
NoSet ==
    /\ hrow = 0
    /\ hmul = 1
    /\ sdata = <<>>
    /\ lane = <<>>

NoInterp ==
    /\ Amin = <<>>
    /\ Amax = <<>>
    /\ row_nnz = <<>>
    /\ f2c = <<>>
    /\ prolong_csr_row_ptr = <<>>
    /\ prolong_csr_col_ind = <<>>
    /\ prolong_csr_val = <<>>
    /\ row_max = <<>>
    /\ ext_row_nnz = <<>>
    /\ state = <<>>
    /\ csr_row_ptr_P = <<>>
    /\ csr_col_ind_P = <<>>
    /\ csr_val_P = <<>>
    /\ comp_csr_row_ptr = <<>>
    /\ comp_csr_col_ind = <<>>
    /\ comp_csr_val = <<>>

\* ------------------------------------------------ Spec: PMIS on any S, omega

\* every row stores every column, in ascending order
DenseRowPtr(n) == [i \in 0 .. n |-> i * n]
DenseColInd(n) == [j \in 0 .. n * n - 1 |-> j % n]

\* the weights of Spec: one below 1.0 and three distinct ones from 1.0 up
OmegaSet == {JitterDen - 1} \cup (JitterDen .. JitterDen + 2)

InitPMIS ==
    /\ nrow = NRow
    /\ csr_row_ptr = DenseRowPtr(NRow)
    /\ csr_col_ind = DenseColInd(NRow)
    /\ csr_val = [j \in 0 .. NRow * NRow - 1 |-> IF j % NRow = j \div NRow THEN 2 ELSE -1]
    /\ S \in {s \in [0 .. NRow * NRow - 1 -> BOOLEAN] :
                \A j \in 0 .. NRow * NRow - 1 : (j % NRow = j \div NRow) => ~s[j]}
    /\ omega \in [0 .. NRow - 1 -> OmegaSet]
    /\ cf = [r \in 0 .. NRow - 1 |-> 0]
    /\ workspace \in [0 .. NRow - 1 -> BOOLEAN]
    /\ undecided = TRUE
    /\ pc = "start"
    /\ done = {}
    /\ cf0 = cf
    /\ cf_in = cf
    /\ cf_rd = NoAccess
    /\ cf_wr = NoAccess
    /\ grid = nrow
    /\ round = 0
    /\ reruns = 0
    /\ eps = [num |-> 1, den |-> 4]
    /\ omega0 = omega
    /\ FF1 = FALSE
    /\ trunc = [num |-> 0, den |-> 1]
    /\ NoInterp
    /\ NoSet

Init == InitPMIS

Next ==
    \/ StartRound
    \/ \E row \in Launched : unassigned_to_coarse(row)
    \/ \E row \in Launched : correct_coarse(row)
    \/ \E row \in Launched : coarse_edges_to_fine(row)
    \/ \E row \in Launched : check_undecided(row)
    \/ KernelEnd
    \/ Poll
    \/ Rerun

Spec == Init /\ [][Next]_vars

\* ------------------ InterpSpec: the interpolation passes on any S and cf

\* rows 0 .. NRow-2 store every column, ascending or descending; the last row
\* stores its diagonal only
InterpNnz == (NRow - 1) * NRow + 1
InterpRowPtr == [i \in 0 .. NRow |-> IF i = NRow THEN InterpNnz ELSE i * NRow]
InterpRowOf(j) == IF j = InterpNnz - 1 THEN NRow - 1 ELSE j \div NRow
InterpColAsc ==
    [j \in 0 .. InterpNnz - 1 |-> IF j = InterpNnz - 1 THEN NRow - 1 ELSE j % NRow]
InterpColDesc ==
    [j \in 0 .. InterpNnz - 1 |->
        IF j = InterpNnz - 1 THEN NRow - 1 ELSE NRow - 1 - (j % NRow)]

\* what an off-diagonal entry can be: its value and its strength
EntryKinds ==
    {[v |-> -6, s |-> TRUE], [v |-> -1, s |-> TRUE],
     [v |-> -1, s |-> FALSE], [v |-> 1, s |-> TRUE]}

InitInterp ==
    /\ nrow = NRow
    /\ csr_row_ptr = InterpRowPtr
    /\ csr_col_ind \in {InterpColAsc, InterpColDesc}
    /\ \E k \in [0 .. InterpNnz - 1 -> EntryKinds] :
        /\ csr_val = [j \in 0 .. InterpNnz - 1 |->
                        IF csr_col_ind[j] = InterpRowOf(j) THEN 2 ELSE k[j].v]
        /\ S = [j \in 0 .. InterpNnz - 1 |->
                        IF csr_col_ind[j] = InterpRowOf(j) THEN FALSE ELSE k[j].s]
    /\ cf \in [0 .. NRow - 1 -> {1, 2}]
    /\ FF1 \in BOOLEAN
    /\ omega = [r \in 0 .. NRow - 1 |-> 0]
    /\ omega0 = omega
    /\ cf0 = cf
    /\ cf_in = cf
    /\ cf_rd = NoAccess
    /\ cf_wr = NoAccess
    /\ grid = nrow
    /\ workspace = [r \in 0 .. NRow - 1 |-> FALSE]
    /\ undecided = FALSE
    /\ pc = "direct_nnz"
    /\ done = {}
    /\ round = 0
    /\ reruns = 0
    /\ eps = [num |-> 1, den |-> 4]
    /\ trunc = [num |-> 0, den |-> 1]
    /\ NoInterp
    /\ NoSet

NextInterp ==
    \/ \E row \in Launched : direct_interp_nnz(row)
    \/ DirectScan
    \/ \E row \in Launched : direct_interp_fill(row)
    \/ \E row \in Launched : extpi_interp_max(row)
    \/ \E row \in Launched : extpi_interp_nnz(row)
    \/ ExtScan
    \/ \E row \in Launched : extpi_interp_fill(row)
    \/ KernelEnd

InterpSpec == InitInterp /\ [][NextInterp]_vars

\* ------------- FanSpec: the extended+i passes with two-hop fan-out

\* NRow + 1 rows, each storing every column, all ascending or all
\* descending, diagonal 2 and off-diagonals -1; rows 0 and 1 hold the strong
\* entries (any off-diagonal subset), every cf without Undecided, FF1 both
FanInput ==
    /\ nrow = NRow + 1
    /\ grid = nrow
    /\ csr_row_ptr = DenseRowPtr(nrow)
    /\ csr_col_ind \in {DenseColInd(nrow),
                        [j \in 0 .. nrow * nrow - 1 |-> nrow - 1 - (j % nrow)]}
    /\ csr_val = [j \in 0 .. nrow * nrow - 1 |->
                    IF csr_col_ind[j] = j \div nrow THEN 2 ELSE -1]
    /\ S \in {s \in [0 .. nrow * nrow - 1 -> BOOLEAN] :
                \A j \in 0 .. nrow * nrow - 1 :
                    s[j] => (j \div nrow <= 1 /\ csr_col_ind[j] # j \div nrow)}
    /\ cf \in [0 .. nrow - 1 -> {1, 2}]
    /\ FF1 \in BOOLEAN
    /\ omega = [r \in 0 .. nrow - 1 |-> 0]
    /\ omega0 = omega
    /\ cf0 = cf
    /\ cf_in = cf
    /\ cf_rd = NoAccess
    /\ cf_wr = NoAccess
    /\ workspace = [r \in 0 .. nrow - 1 |-> FALSE]
    /\ undecided = FALSE
    /\ done = {}
    /\ round = 0
    /\ reruns = 0
    /\ eps = [num |-> 1, den |-> 4]
    /\ trunc = [num |-> 0, den |-> 1]
    /\ NoInterp

InitFan ==
    /\ FanInput
    /\ pc = "extpi_max"
    /\ NoSet

NextFan ==
    \/ \E row \in Launched : extpi_interp_max(row)
    \/ \E row \in Launched : extpi_interp_nnz(row)
    \/ ExtScan
    \/ \E row \in Launched : extpi_interp_fill(row)
    \/ KernelEnd

FanSpec == InitFan /\ [][NextFan]_vars

\* ---- LaneSpec: the count pass of one row of FanSpec, insert by insert

\* a non-Coarse row with strong entries, an empty set, a hash that spreads
\* the keys (hmul 1) or makes them collide (hmul 0 and 2)
InitLane ==
    /\ FanInput
    /\ pc = "extpi_nnz_lanes"
    /\ hrow \in {r \in 0 .. 1 : cf[r] # 1}
    /\ hmul \in 0 .. 2
    /\ sdata = [s \in 0 .. HASHSIZE - 1 |-> empty_key]
    /\ lane = [lid \in Lanes |-> [n |-> 0, off |-> 0, nnz |-> 0]]

NextLane ==
    \/ \E lid \in Lanes : extpi_nnz_insert(lid)
    \/ extpi_nnz_reduce

LaneSpec == InitLane /\ [][NextLane]_vars

\* ------- SignSpec: the interpolation passes on diagonals of either sign

\* three rows storing every column in ascending order; the diagonals of rows
\* 0 and 1 are -2 or 2, their off-diagonal entries -1 or 2, strong or weak;
\* row 2 is Coarse with diagonal 2 and weak entries -1; row 0 is Fine
InitSign ==
    /\ nrow = NRow
    /\ csr_row_ptr = DenseRowPtr(NRow)
    /\ csr_col_ind = DenseColInd(NRow)
    /\ \E d \in [0 .. NRow - 2 -> {-2, 2}],
          v \in [0 .. (NRow - 1) * NRow - 1 -> {-1, 2}] :
        csr_val = [j \in 0 .. NRow * NRow - 1 |->
                    IF j % NRow = j \div NRow
                    THEN (IF j \div NRow = NRow - 1 THEN 2 ELSE d[j \div NRow])
                    ELSE (IF j \div NRow = NRow - 1 THEN -1 ELSE v[j])]
    /\ S \in [0 .. NRow * NRow - 1 -> BOOLEAN]
    /\ \A j \in 0 .. NRow * NRow - 1 :
        (j % NRow = j \div NRow \/ j \div NRow = NRow - 1) => ~S[j]
    /\ cf \in [0 .. NRow - 1 -> {1, 2}]
    /\ cf[0] = 2
    /\ cf[NRow - 1] = 1
    /\ FF1 = FALSE
    /\ omega = [r \in 0 .. NRow - 1 |-> 0]
    /\ omega0 = omega
    /\ cf0 = cf
    /\ cf_in = cf
    /\ cf_rd = NoAccess
    /\ cf_wr = NoAccess
    /\ grid = nrow
    /\ workspace = [r \in 0 .. NRow - 1 |-> FALSE]
    /\ undecided = FALSE
    /\ pc = "direct_nnz"
    /\ done = {}
    /\ round = 0
    /\ reruns = 0
    /\ eps = [num |-> 1, den |-> 4]
    /\ trunc = [num |-> 0, den |-> 1]
    /\ NoInterp
    /\ NoSet

SignSpec == InitSign /\ [][NextInterp]_vars

\* ------------------- CompressSpec: the compressor on any small matrix P

\* P has CompRows rows of 0 .. MaxRowLen entries each, columns ascending
CompRows == 2
MaxRowLen == 3
CompVals == {-2, -1, 1, 2}
CompTruncs == {[num |-> k, den |-> 2] : k \in 0 .. 3}
CompRowPtr(len) == [i \in 0 .. CompRows |-> SumF(len, {r \in 0 .. CompRows - 1 : r < i})]
CompRowOf(ptr, j) == CHOOSE r \in 0 .. CompRows - 1 : ptr[r] <= j /\ j < ptr[r + 1]

InitCompress ==
    /\ nrow = CompRows
    /\ \E len \in [0 .. CompRows - 1 -> 0 .. MaxRowLen] :
        /\ csr_row_ptr = CompRowPtr(len)
        /\ csr_col_ind = [j \in 0 .. CompRowPtr(len)[CompRows] - 1 |->
                            j - CompRowPtr(len)[CompRowOf(CompRowPtr(len), j)]]
        /\ csr_val \in [0 .. CompRowPtr(len)[CompRows] - 1 -> CompVals]
        /\ S = [j \in 0 .. CompRowPtr(len)[CompRows] - 1 |-> FALSE]
    /\ trunc \in CompTruncs
    /\ cf = [r \in 0 .. CompRows - 1 |-> 0]
    /\ FF1 = FALSE
    /\ omega = [r \in 0 .. CompRows - 1 |-> 0]
    /\ omega0 = omega
    /\ cf0 = cf
    /\ cf_in = cf
    /\ cf_rd = NoAccess
    /\ cf_wr = NoAccess
    /\ grid = nrow
    /\ workspace = [r \in 0 .. CompRows - 1 |-> FALSE]
    /\ undecided = FALSE
    /\ pc = "compress_nnz"
    /\ done = {}
    /\ round = 0
    /\ reruns = 0
    /\ eps = [num |-> 1, den |-> 4]
    /\ NoInterp
    /\ NoSet

NextCompress ==
    \/ \E row \in Launched : compress_nnz(row)
    \/ CompressScan
    \/ \E row \in Launched : compress_fill(row)
    \/ KernelEnd

CompressSpec == InitCompress /\ [][NextCompress]_vars

\* ------------------------- PipeSpec: classifier, PMIS loop and count passes

\* the 1-D path graph of n rows: diagonal d, off-diagonals a, ascending columns
PathRowPtr(n) == [i \in 0 .. n |-> IF i = 0 THEN 0 ELSE IF i = n THEN 3 * n - 2 ELSE 3 * i - 1]
PathRowOf(n, j) == CHOOSE r \in 0 .. n - 1 : PathRowPtr(n)[r] <= j /\ j < PathRowPtr(n)[r + 1]
PathColInd(n) ==
    [j \in 0 .. 3 * n - 3 |->
        LET r == PathRowOf(n, j) IN
        IF r = 0 THEN j ELSE r - 1 + (j - PathRowPtr(n)[r])]
PathVal(n, d, a) ==
    [j \in 0 .. 3 * n - 3 |-> IF PathColInd(n)[j] = PathRowOf(n, j) THEN d ELSE a]

\* the state the caller hands to the classifier: S clear, omega seeded with a
\* jitter in [0,1), cf all undecided
Seeded(n, m) ==
    /\ S = [j \in 0 .. m - 1 |-> FALSE]
    /\ omega \in [0 .. n - 1 -> 0 .. JitterDen - 1]
    /\ omega0 = omega
    /\ cf = [r \in 0 .. n - 1 |-> 0]
    /\ cf0 = cf
    /\ cf_in = cf
    /\ cf_rd = NoAccess
    /\ cf_wr = NoAccess
    /\ grid = nrow
    /\ workspace = [r \in 0 .. n - 1 |-> FALSE]
    /\ undecided = TRUE
    /\ pc = "classify"
    /\ done = {}
    /\ round = 0
    /\ reruns = 0
    /\ eps = [num |-> 1, den |-> 4]
    /\ trunc = [num |-> 0, den |-> 1]
    /\ NoInterp
    /\ NoSet

InitPath ==
    /\ nrow = 5
    /\ csr_row_ptr = PathRowPtr(5)
    /\ csr_col_ind = PathColInd(5)
    /\ \E a \in {-2, -1} : csr_val = PathVal(5, 2, a)
    /\ FF1 = FALSE
    /\ Seeded(5, 13)

InitDiag ==
    /\ nrow = NRow
    /\ csr_row_ptr = [i \in 0 .. NRow |-> i]
    /\ csr_col_ind = [j \in 0 .. NRow - 1 |-> j]
    /\ csr_val \in [0 .. NRow - 1 -> {-1, 2}]
    /\ FF1 \in BOOLEAN
    /\ Seeded(NRow, NRow)

InitPipe == InitPath \/ InitDiag

NextPipe ==
    \/ \E row \in Launched : strong_influences(row)
    \/ StartRound
    \/ \E row \in Launched : unassigned_to_coarse(row)
    \/ \E row \in Launched : correct_coarse(row)
    \/ \E row \in Launched : coarse_edges_to_fine(row)
    \/ \E row \in Launched : check_undecided(row)
    \/ KernelEnd
    \/ Poll
    \/ BuildInterp
    \/ NextInterp

PipeSpec == InitPipe /\ [][NextPipe]_vars

\* --------------------- ClassifySpec: the classifier on any small matrix

\* NRow rows; a row stores every column (diagonal -2 or 2) or, in the hollow
\* shape, its NRow - 1 off-diagonal columns only; off-diagonals -2, -1 or 4
\* the entries of NRow rows of NRow - 1 columns
RectNnz == NRow * (NRow - 1)
HollowRowPtr == [i \in 0 .. NRow |-> i * (NRow - 1)]
HollowColInd ==
    [j \in 0 .. RectNnz - 1 |->
        ((j \div (NRow - 1)) + 1 + (j % (NRow - 1))) % NRow]
InitClassify ==
    /\ nrow = NRow
    /\ grid = nrow
    /\ \E o \in [0 .. RectNnz - 1 -> {-2, -1, 4}] :
        \/ /\ csr_row_ptr = DenseRowPtr(NRow)
           /\ csr_col_ind = DenseColInd(NRow)
           /\ \E d \in [0 .. NRow - 1 -> {-2, 2}] :
                csr_val = [j \in 0 .. NRow * NRow - 1 |->
                            IF j % NRow = j \div NRow THEN d[j % NRow]
                            ELSE o[(j \div NRow) * (NRow - 1) + (j % NRow)
                                   - (IF j % NRow < j \div NRow THEN 0 ELSE 1)]]
        \/ /\ csr_row_ptr = HollowRowPtr
           /\ csr_col_ind = HollowColInd
           /\ csr_val = o
    /\ S = [j \in 0 .. csr_row_ptr[NRow] - 1 |-> FALSE]
    /\ eps \in {[num |-> 1, den |-> 4], [num |-> 1, den |-> 2]}
    /\ omega = [r \in 0 .. NRow - 1 |-> r % JitterDen]
    /\ omega0 = omega
    /\ cf = [r \in 0 .. NRow - 1 |-> 0]
    /\ cf0 = cf
    /\ cf_in = cf
    /\ cf_rd = NoAccess
    /\ cf_wr = NoAccess
    /\ workspace = [r \in 0 .. NRow - 1 |-> FALSE]
    /\ undecided = TRUE
    /\ FF1 = FALSE
    /\ pc = "classify"
    /\ done = {}
    /\ round = 0
    /\ reruns = 0
    /\ trunc = [num |-> 0, den |-> 1]
    /\ NoInterp
    /\ NoSet

NextClassify ==
    \/ \E row \in Launched : strong_influences(row)
    \/ KernelEnd

ClassifySpec == InitClassify /\ [][NextClassify]_vars

\* ----------- OobSpec: launches that cover more row indices than nrow

\* the launch grids cover OverLaunch row indices past nrow; the buffers were
\* allocated for NRow rows and the kernels run on the leading NRow - 1 rows
\* (dense, diagonal 2, off-diagonals -1); the last row of the buffers holds
\* NRow - 1 stale entries and is no row of the matrix
OverLaunch == 1
InitOobPipe ==
    /\ nrow = NRow - 1
    /\ grid = nrow + OverLaunch
    /\ csr_row_ptr = [i \in 0 .. NRow |-> i * (NRow - 1)]
    /\ csr_col_ind = [j \in 0 .. RectNnz - 1 |-> j % (NRow - 1)]
    /\ csr_val = [j \in 0 .. RectNnz - 1 |->
                    IF j % (NRow - 1) = j \div (NRow - 1) THEN 2 ELSE -1]
    /\ S = [j \in 0 .. RectNnz - 1 |-> FALSE]
    /\ omega \in [0 .. NRow - 1 -> 0 .. JitterDen - 1]
    /\ omega0 = omega
    /\ cf = [r \in 0 .. NRow - 1 |-> 0]
    /\ cf0 = cf
    /\ cf_in = cf
    /\ cf_rd = NoAccess
    /\ cf_wr = NoAccess
    /\ workspace = [r \in 0 .. NRow - 1 |-> FALSE]
    /\ undecided = TRUE
    /\ FF1 \in BOOLEAN
    /\ pc = "classify"
    /\ done = {}
    /\ round = 0
    /\ reruns = 0
    /\ eps = [num |-> 1, den |-> 4]
    /\ trunc = [num |-> 0, den |-> 1]
    /\ NoInterp
    /\ NoSet

\* the compressor on the leading row of a two-row buffer
InitOobCompress ==
    /\ nrow = 1
    /\ grid = nrow + OverLaunch
    /\ csr_row_ptr = [i \in 0 .. 2 |-> 2 * i]
    /\ csr_col_ind = [j \in 0 .. 3 |-> j % 2]
    /\ csr_val \in [0 .. 3 -> CompVals]
    /\ S = [j \in 0 .. 3 |-> FALSE]
    /\ trunc \in CompTruncs
    /\ cf = [r \in 0 .. 1 |-> 0]
    /\ FF1 = FALSE
    /\ omega = [r \in 0 .. 1 |-> 0]
    /\ omega0 = omega
    /\ cf0 = cf
    /\ cf_in = cf
    /\ cf_rd = NoAccess
    /\ cf_wr = NoAccess
    /\ workspace = [r \in 0 .. 1 |-> FALSE]
    /\ undecided = FALSE
    /\ pc = "compress_nnz"
    /\ done = {}
    /\ round = 0
    /\ reruns = 0
    /\ eps = [num |-> 1, den |-> 4]
    /\ NoInterp
    /\ NoSet

InitOob == InitOobPipe \/ InitOobCompress
NextOob == NextPipe \/ NextCompress
OobSpec == InitOob /\ [][NextOob]_vars

\* the kernels run to completion and the caller keeps polling the flag
LiveSpec == Spec /\ WF_vars(Next)

\* ------------------------------------------------ claims on the PMIS loop

\* C1: when kernel_csr_rs_pmis_check_undecided has run on a cleared flag, the
\* flag is true iff some row r < nrow has cf[r] = 0; and when the round loop
\* has stopped on a false flag every row is Coarse (1) or Fine (2).
C1_FlagIffUndecided ==
    /\ pc = "poll" => (undecided <=> \E r \in Rows : cf[r] = 0)
    /\ pc = "done" => \A r \in Rows : cf[r] \in {1, 2}
C1_Witness ==
    /\ pc = "poll"
    /\ undecided
    /\ \E r \in Rows : cf[r] = 0
    /\ \E r \in Rows : cf[r] = 1

\* C2: from cf all Undecided the round loop reaches a round after which no row
\* is Undecided, and a round that starts with an Undecided row ends with
\* strictly more decided rows than it started with.
RoundProgress ==
    (Undecided(cf0) # {}) => Cardinality(Decided(cf)) > Cardinality(Decided(cf0))
C2_Terminates ==
    /\ <>(pc = "done")
    /\ [](pc = "poll" => RoundProgress)
C2_Witness ==
    /\ pc = "done"
    /\ round = 3
    /\ reruns = 0

\* C3 (as claimed): when the loop has converged no row r holds a strong entry
\* with column c such that r and c are both Coarse and omega[r] # omega[c].
C3_NoUnequalCoarsePair ==
    pc = "done" =>
        \A r \in Rows : \A j \in RowEntries(r) :
            (S[j] /\ cf[r] = 1 /\ cf[csr_col_ind[j]] = 1)
                => omega[r] = omega[csr_col_ind[j]]

\* C4: cf[r] stays in {0,1,2}; a Fine row stays Fine; a row that is Coarse when
\* Arbitrate of some round has finished stays Coarse for ever; a row only goes
\* back to Undecided from Coarse, in Arbitrate, with workspace[r] true.
Provisional(r) ==
    \/ pc = "promote" /\ r \in done /\ workspace[r]
    \/ pc = "arbitrate" /\ workspace[r]
Accepted(r) == cf[r] = 1 /\ ~Provisional(r)
C4_Step ==
    \A r \in Rows :
        /\ cf'[r] \in {0, 1, 2}
        /\ cf[r] = 2 => cf'[r] = 2
        /\ (cf[r] = 1 /\ pc \notin {"promote", "arbitrate"}) => Accepted(r)
        /\ Accepted(r) => Accepted(r)'
        /\ (cf[r] # 0 /\ cf'[r] = 0) =>
               (pc = "arbitrate" /\ workspace[r] /\ cf[r] = 1 /\ cf0[r] = 0)
C4_Monotone == [][C4_Step]_vars
C4_Witness ==
    /\ pc = "arbitrate"
    /\ round = 2
    /\ \E r \in Rows : workspace[r] /\ cf[r] = 0
    /\ \E r \in Rows : cf[r] = 1 /\ ~workspace[r]

\* C5: with no row Undecided, one more full round leaves cf unchanged, leaves
\* workspace false for every row and leaves the cleared flag unset.
C5_RerunIsNoOp ==
    (reruns >= 1 /\ pc # "start") =>
        /\ cf = cf0
        /\ ~undecided
        /\ \A r \in Rows : (pc # "promote" \/ r \in done) => ~workspace[r]
C5_Witness ==
    /\ reruns = 1
    /\ pc = "done"
    /\ \E r \in Rows : cf[r] = 1
    /\ \E r \in Rows : cf[r] = 2

\* ------------------------------------------------ claims on the scenarios

IsPath5 ==
    /\ nrow = 5
    /\ csr_row_ptr = PathRowPtr(5)
    /\ csr_col_ind = PathColInd(5)
Alternating ==
    \A i \in 0 .. nrow - 2 :
        /\ ~(cf[i] = 1 /\ cf[i + 1] = 1)
        /\ ~(cf[i] = 2 /\ cf[i + 1] = 2)
NoAdjacentTie == \A i \in 0 .. nrow - 2 : omega[i] # omega[i + 1]

\* C6 (as claimed): on the 5-row path graph with eps = 0.25, for every seeding
\* of omega, the converged classification alternates: no two adjacent rows are
\* both Coarse and no two adjacent rows are both Fine.
C6_PathAlternates ==
    (IsPath5 /\ pc = "done") => Alternating

\* C6 (amended): the same for every seeding that leaves no two adjacent rows
\* with equal omega after the classifier.
C6_PathAlternatesWithoutTies ==
    (IsPath5 /\ pc = "done" /\ NoAdjacentTie) => Alternating
C6_Witness ==
    /\ IsPath5
    /\ pc = "done"
    /\ NoAdjacentTie
    /\ round = 2
    /\ cf = (0 :> 1 @@ 1 :> 2 @@ 2 :> 1 @@ 3 :> 2 @@ 4 :> 1)

DiagonalOnly ==
    \A r \in Rows : RowEntries(r) # {} /\ \A j \in RowEntries(r) : csr_col_ind[j] = r

\* C7: on a matrix with only diagonal entries and omega seeded in [0,1) the
\* classifier marks nothing strong and leaves omega as seeded, the PMIS loop
\* converges after one round with every row Fine, and the direct and the
\* extended+i count passes return a row nnz of 0 for every row.
C7_DiagonalAllFine ==
    DiagonalOnly =>
        /\ \A j \in Entries : ~S[j]
        /\ omega = omega0
        /\ pc = "poll" => (~undecided /\ round = 1)
        /\ pc \notin {"classify", "start", "promote", "arbitrate", "fine",
                      "check", "poll"} =>
               (round = 1 /\ \A r \in Rows : cf[r] = 2)
        /\ \A r \in DOMAIN row_nnz : row_nnz[r] = 0
        /\ \A r \in DOMAIN ext_row_nnz : ext_row_nnz[r] = 0
C7_Witness ==
    /\ DiagonalOnly
    /\ pc = "end"
    /\ DOMAIN row_nnz = Rows
    /\ DOMAIN ext_row_nnz = Rows
    /\ \E r \in Rows : csr_val[csr_row_ptr[r]] < 0
    /\ \E r \in Rows : omega0[r] > 0

\* ------------------------------------------------ claims on the classifier

\* the classifier has completed
Classified == pc = "start" \/ (pc = "classify" /\ done = Launched)

\* the row stores a diagonal entry, and it is negative
DiagStored(row) == \E j \in RowEntries(row) : csr_col_ind[j] = row
DiagNegative(row) ==
    \E j \in RowEntries(row) : csr_col_ind[j] = row /\ csr_val[j] < 0
OffValues(row) == {csr_val[j] : j \in {k \in RowEntries(row) : csr_col_ind[k] # row}}
\* the extremum the claim selects: the maximum off-diagonal value when the
\* diagonal is negative, the minimum otherwise
ClaimedExtremum(row) ==
    IF OffValues(row) = {} THEN 0
    ELSE IF DiagNegative(row) THEN SetMax(OffValues(row))
    ELSE SetMin(OffValues(row))
\* off-diagonal and value < cond, cond = eps times the claimed extremum
ClaimedStrong(row, j) ==
    /\ csr_col_ind[j] # row
    /\ csr_val[j] * eps.den < ClaimedExtremum(row) * eps.num

\* C13 (as claimed): after the classifier, for every row and every stored
\* entry j of that row, S[j] is true iff the entry is off-diagonal and its
\* value is less than cond, cond being eps times the row's maximum
\* off-diagonal value when the row's diagonal is negative and eps times the
\* minimum otherwise; a diagonal entry is never marked strong.
C13_StrongIffBelowCond ==
    Classified =>
        \A row \in Rows : \A j \in RowEntries(row) :
            S[j] <=> ClaimedStrong(row, j)

\* the same for the rows that store their diagonal
StrongIffBelowCondWhereDiagStored ==
    Classified =>
        \A row \in Rows : DiagStored(row) =>
            \A j \in RowEntries(row) : S[j] <=> ClaimedStrong(row, j)

\* the entries of column c that are marked strong
StrongInColumn(c) == {j \in DOMAIN S : S[j] /\ csr_col_ind[j] = c}

\* C14: while the classifier runs and after it has completed, in whatever
\* order the rows have been processed, omega[c] of every column c is its
\* seeded value plus 1.0 for each entry of column c marked strong so far; so
\* after the classifier omega[c] is the seed plus the number of strong
\* entries of column c, the same for every completion order.
C14_OmegaCountsStrongColumns ==
    \A c \in Rows :
        omega[c] = omega0[c] + One * Cardinality(StrongInColumn(c))

\* the classifier has completed, a column was incremented from two rows and
\* another column was never incremented
C14_Witness ==
    /\ Classified
    /\ \E c \in Rows :
        /\ omega[c] = omega0[c] + 2 * One
        /\ Cardinality({r \in Rows : \E j \in RowEntries(r) : j \in StrongInColumn(c)}) = 2
    /\ \E c \in Rows : omega[c] = omega0[c]

\* |x|
Magnitude(x) == IF x < 0 THEN -x ELSE x

\* C30 (as claimed): for every row, with positive or negative diagonal, every
\* entry the classifier marks strong is an off-diagonal entry whose magnitude
\* exceeds the magnitude of the row's threshold cond, eps times the selected
\* off-diagonal extremum.
C30_StrongExceedsThreshold ==
    \A row \in Rows : (Classified /\ DiagStored(row)) =>
        \A j \in RowEntries(row) : S[j] =>
            /\ csr_col_ind[j] # row
            /\ Magnitude(csr_val[j]) * eps.den
                > Magnitude(RowExtremum(row, DiagNegative(row))) * eps.num

\* on a row whose diagonal is not negative the marked entries are
\* off-diagonal and exceed the threshold in magnitude
StrongExceedsThresholdOnPositiveDiagonal ==
    \A row \in Rows : (Classified /\ DiagStored(row) /\ ~DiagNegative(row)) =>
        \A j \in RowEntries(row) : S[j] =>
            /\ csr_col_ind[j] # row
            /\ Magnitude(csr_val[j]) * eps.den
                > Magnitude(RowExtremum(row, FALSE)) * eps.num

\* the strength mask the classifier left on `row`
RowMask(row) == {j \in RowEntries(row) : S[j]}

\* C33 (as claimed): for every row the classifier has processed, a row that
\* stores no diagonal entry included, the diagonal-sign flag its lanes read
\* was written during the scan of that row, so the row's strength mask is
\* the one function of the row's entries and eps, whatever the flag held
\* before.
C33_FlagWrittenByOwnScan ==
    \A row \in Rows : (pc = "classify" /\ row \in done) =>
        /\ DiagStored(row)
        /\ \A sign \in BOOLEAN :
            (sign \in SignValues(row)) =>
                RowMask(row) = {j \in RowEntries(row) : StrongEntry(row, sign, j)}

\* on a row that stores its diagonal the flag is the sign of that diagonal
\* and the mask is determined by the row and eps
FlagWrittenWhereDiagStored ==
    \A row \in Rows : (pc = "classify" /\ row \in done /\ DiagStored(row)) =>
        /\ SignValues(row) = {DiagNegative(row)}
        /\ RowMask(row) =
            {j \in RowEntries(row) : StrongEntry(row, DiagNegative(row), j)}

\* ------------------------------------------- claims on the PMIS kernels

\* row a stores a strong entry of column b
StrongEdge(a, b) == \E j \in RowEntries(a) : S[j] /\ csr_col_ind[j] = b

\* cf at the end of each PMIS kernel, as a function of the cf c the kernel
\* is launched on (and of the flags w for Arbitrate), S and omega
PromoteEnd(c) ==
    [r \in DOMAIN c |->
        IF c[r] # 0 THEN c[r] ELSE IF omega[r] >= One THEN 1 ELSE 2]
FlagsEnd(c) == [r \in DOMAIN c |-> c[r] = 0 /\ omega[r] >= One]
ArbitrateEnd(c, w) ==
    [r \in DOMAIN c |->
        IF /\ w[r]
           /\ \E q \in DOMAIN c :
                /\ w[q]
                /\ omega[q] > omega[r]
                /\ StrongEdge(r, q) \/ StrongEdge(q, r)
        THEN 0 ELSE c[r]]
FineEnd(c) ==
    [r \in DOMAIN c |->
        IF c[r] = 0 /\ \E q \in DOMAIN c : StrongEdge(r, q) /\ c[q] = 1
        THEN 2 ELSE c[r]]
RoundEnd(c) == FineEnd(ArbitrateEnd(PromoteEnd(c), FlagsEnd(c)))

\* the rounds are repeated while a row is Undecided, n times at most
RECURSIVE Classification(_, _)
Classification(c, n) ==
    IF n = 0 \/ \A r \in DOMAIN c : c[r] # 0 THEN c
    ELSE Classification(RoundEnd(c), n - 1)

\* C15: when every thread of Promote, of Arbitrate or of
\* Fine-by-coarse-neighbor has returned, in whatever order the rows ran, cf
\* is one function of the cf the kernel was launched on, of S, omega and the
\* flags; during Fine-by-coarse-neighbor the set of Coarse cells never
\* changes; and the classification the loop stops on is the function of S
\* and omega obtained by repeating the round from the launch-time cf.
C15_KernelsDeterministic ==
    /\ (pc = "promote" /\ done = Launched) => cf = PromoteEnd(cf_in)
    /\ (pc = "arbitrate" /\ done = Launched) => cf = ArbitrateEnd(cf_in, workspace)
    /\ (pc = "fine" /\ done = Launched) => cf = FineEnd(cf_in)
    /\ pc = "fine" => \A r \in Rows : (cf[r] = 1) <=> (cf_in[r] = 1)
    /\ pc = "done" =>
        cf = Classification([r \in DOMAIN cf |-> 0], MaxRound)

\* the loop has stopped after two rounds or more, on a classification with
\* Coarse and Fine rows
C15_Witness ==
    /\ pc = "done"
    /\ round >= 2
    /\ \E r \in Rows : cf[r] = 1
    /\ \E r \in Rows : cf[r] = 2

\* Promote has completed: its last thread has returned, or Arbitrate is
\* launched and none of its threads has run
Promoted ==
    \/ pc = "promote" /\ done = Launched
    \/ pc = "arbitrate" /\ done = {}

\* C16: after Promote, for every row r < nrow: a row that was Undecided with
\* omega[r] >= 1 is Coarse and flagged; a row that was Undecided with
\* omega[r] < 1 is Fine and not flagged; a row that was Coarse or Fine keeps
\* its cf and is not flagged, whatever its flag was before.
C16_PromoteOutcome ==
    Promoted =>
        \A r \in Rows :
            /\ (cf0[r] = 0 /\ omega[r] >= One) => (cf[r] = 1 /\ workspace[r])
            /\ (cf0[r] = 0 /\ omega[r] < One) => (cf[r] = 2 /\ ~workspace[r])
            /\ cf0[r] \in {1, 2} => (cf[r] = cf0[r] /\ ~workspace[r])

\* Promote of the second round has completed: a row decided in the first
\* round with omega < 1, a row promoted again, a row left as it was
C16_Witness ==
    /\ Promoted
    /\ round = 2
    /\ \E r \in Rows : cf0[r] = 0 /\ cf[r] = 1 /\ workspace[r]
    /\ \E r \in Rows : cf0[r] = 1 /\ cf[r] = 1 /\ ~workspace[r]
    /\ \E r \in Rows : cf0[r] = 2 /\ omega[r] < One

\* Arbitrate has completed
Arbitrated == pc = "arbitrate" /\ done = Launched

\* rows x and y are strongly connected: one stores a strong entry of the other
Connected(x, y) == StrongEdge(x, y) \/ StrongEdge(y, x)
\* x is flagged and a flagged row of larger omega is strongly connected to it
Outweighed(x) ==
    /\ workspace[x]
    /\ \E y \in Rows : workspace[y] /\ omega[y] > omega[x] /\ Connected(x, y)

C18_SingleArbitratingWriter ==
    pc = "arbitrate" => \A x \in Rows : Cardinality(cf_wr[x]) <= 1

\* what holds instead: every store of Arbitrate writes 0, so a cell with
\* several writers holds 0 whatever their order
ArbitrateWritersAgree ==
    pc = "arbitrate" => \A x \in Rows : cf_wr[x] # {} => cf[x] = 0

\* C19 (as claimed): in Promote, Arbitrate and Fine-by-coarse-neighbor no
\* lane group reads a cf cell that the lane group of another row writes
\* during the same launch.
C19_NoReadOfSameLaunchWrite ==
    pc \in {"promote", "arbitrate", "fine"} =>
        \A x \in Rows : \A r \in cf_rd[x] : \A w \in cf_wr[x] : r = w

\* what holds instead: a cell read by one row and written by another in the
\* same launch is written in Fine-by-coarse-neighbor only, and is not Coarse
\* before or after the write, so the reader's test cf[col] == 1 is false
\* whichever value it reads
RacingReadsNeverCoarse ==
    \A x \in Rows :
        (\E r \in cf_rd[x] : \E w \in cf_wr[x] : r # w) =>
            (pc = "fine" /\ cf_in[x] = 0 /\ cf[x] = 2)

\* Fine-by-coarse-neighbor has completed
Fined == pc = "fine" /\ done = Launched

\* the row stores a strong entry whose column was Coarse at the launch
HasStrongCoarse(r) ==
    \E j \in RowEntries(r) : S[j] /\ cf_in[csr_col_ind[j]] = 1

\* C20: after Fine-by-coarse-neighbor a row that was Undecided before the
\* kernel is Fine iff its own row stores a strong entry whose column is
\* Coarse, and is still Undecided otherwise; a row that was Coarse or Fine
\* keeps its cf.
C20_FineOutcome ==
    Fined =>
        \A r \in Rows :
            /\ cf_in[r] = 0 => (cf[r] = 2 <=> HasStrongCoarse(r))
            /\ (cf_in[r] = 0 /\ ~HasStrongCoarse(r)) => cf[r] = 0
            /\ cf_in[r] # 0 => cf[r] = cf_in[r]

\* the kernel has completed: a row went Fine, and a row stays Undecided
\* although a Coarse row stores a strong entry of it
C20_Witness ==
    /\ Fined
    /\ \E r \in Rows : cf_in[r] = 0 /\ cf[r] = 2
    /\ \E r, q \in Rows : cf_in[r] = 0 /\ cf[r] = 0 /\ cf[q] = 1 /\ StrongEdge(q, r)

\* the row holds a strong entry whose column is Coarse
OwnStrongCoarse(row) ==
    \E j \in RowEntries(row) : S[j] /\ cf[csr_col_ind[j]] = 1

\* C31: when the PMIS loop has converged, every Fine row has omega < 1 or
\* holds in its own row a strong entry whose column is Coarse: no row with
\* omega >= 1 ends Fine without a strongly connected Coarse neighbour.
C31_FineRowsJustified ==
    pc = "done" =>
        \A row \in Rows :
            cf[row] = 2 => (omega[row] < One \/ OwnStrongCoarse(row))

\* the loop has converged after more than one round: a row of omega >= 1 is
\* Fine beside its strong Coarse column, and a row of omega < 1 is Fine
\* with no strong Coarse column
C31_Witness ==
    /\ pc = "done"
    /\ round >= 2
    /\ \E r1, r2 \in Rows :
        /\ cf[r1] = 2 /\ omega[r1] >= One /\ OwnStrongCoarse(r1)
        /\ cf[r2] = 2 /\ omega[r2] < One /\ ~OwnStrongCoarse(r2)

\* a step of the coarsener leaves S and omega as they are, and a step of
\* Arbitrate or of Fine-by-coarse-neighbor leaves workspace as it is
CoarsenerFrame ==
    /\ S' = S
    /\ omega' = omega
    /\ pc \in {"arbitrate", "fine"} => workspace' = workspace

\* C32: Promote, Arbitrate, Fine-by-coarse-neighbor and check never modify
\* S or omega, and Arbitrate and Fine-by-coarse-neighbor never modify
\* workspace: S and omega keep the values the classifier left through every
\* round.
C32_CoarsenerLeavesMaskAndWeights ==
    [](omega = omega0) /\ [][CoarsenerFrame]_vars

\* in a second round Arbitrate has completed after reverting a row that
\* Promote had flagged: the flag still stands and omega is the classifier's
C32_Witness ==
    /\ pc = "arbitrate"
    /\ done = Launched
    /\ round >= 2
    /\ omega = omega0
    /\ \E r \in Rows : workspace[r] /\ cf[r] = 0 /\ cf_in[r] = 1
    /\ \E j \in Entries : S[j]

\* ------------------------------------------------ claims on the builders

\* the cells of a row of P that have been written, given its row pointer
RowCells(ptr, row, written) ==
    IF DOMAIN ptr = 0 .. nrow
    THEN {x \in ptr[row] .. ptr[row + 1] - 1 : x \in DOMAIN written}
    ELSE {}
DirectRowsSorted ==
    \A row \in Rows :
        \A x, y \in RowCells(prolong_csr_row_ptr, row, prolong_csr_col_ind) :
            x < y => prolong_csr_col_ind[x] < prolong_csr_col_ind[y]
ExtRowsSorted ==
    \A row \in Rows :
        \A x, y \in RowCells(csr_row_ptr_P, row, csr_col_ind_P) :
            x < y => csr_col_ind_P[x] < csr_col_ind_P[y]

\* C8 (as claimed): every row of P written by the direct fill pass and by the
\* extended+i fill pass has strictly increasing column indices, also for an
\* input whose rows are not stored in ascending column order, f2c being the
\* coarse numbering in increasing row order.
C8_RowsOfPSorted == DirectRowsSorted /\ ExtRowsSorted

\* C9: for the same matrix, S and cf, and for every row, the row nnz of the
\* direct count pass is at most the row nnz of the extended+i count pass,
\* for FF1 false and for FF1 true.
C9_DirectAtMostExtended ==
    \A row \in DOMAIN row_nnz \cap DOMAIN ext_row_nnz :
        row_nnz[row] <= ext_row_nnz[row]
C9_Witness ==
    /\ pc = "end"
    /\ FF1
    /\ \E r \in Rows :
        /\ cf[r] = 2
        /\ StrongCoarse(r) = {}
        /\ row_nnz[r] = 0
        /\ ext_row_nnz[r] = 1

\* the thread (lane group) of `row` returns in this step of kernel k
Runs(k, row) == pc = k /\ row \in Rows /\ row \notin done /\ row \in done'

\* a Coarse row is counted as 1 by both count passes
CoarseCounted ==
    \A row \in Rows : cf[row] = 1 =>
        /\ row \in DOMAIN row_nnz => row_nnz[row] = 1
        /\ row \in DOMAIN ext_row_nnz => ext_row_nnz[row] = 1
\* the step of a fill pass on a Coarse row writes the cell P_ptr[row], with
\* column f2c[row] and value 1, and no other cell
CoarseFillStep ==
    \A row \in Rows : cf[row] = 1 =>
        /\ Runs("direct_fill", row) =>
            /\ prolong_csr_col_ind' =
                 Write(prolong_csr_col_ind, prolong_csr_row_ptr[row], f2c[row])
            /\ prolong_csr_val' =
                 Write(prolong_csr_val, prolong_csr_row_ptr[row], Rat(1))
        /\ Runs("extpi_fill", row) =>
            /\ csr_col_ind_P' = Write(csr_col_ind_P, csr_row_ptr_P[row], f2c[row])
            /\ csr_val_P' = Write(csr_val_P, csr_row_ptr_P[row], Rat(1))
\* when both fill passes have completed, the row of P of a Coarse row is that
\* one cell in both variants
CoarseRowOfP ==
    pc = "end" /\ DOMAIN csr_row_ptr_P = 0 .. nrow =>
        \A row \in Rows : cf[row] = 1 =>
            /\ prolong_csr_row_ptr[row + 1] = prolong_csr_row_ptr[row] + 1
            /\ prolong_csr_col_ind[prolong_csr_row_ptr[row]] = f2c[row]
            /\ prolong_csr_val[prolong_csr_row_ptr[row]] = Rat(1)
            /\ csr_row_ptr_P[row + 1] = csr_row_ptr_P[row] + 1
            /\ csr_col_ind_P[csr_row_ptr_P[row]] = f2c[row]
            /\ csr_val_P[csr_row_ptr_P[row]] = Rat(1)

\* C11: for every Coarse row, in the direct and in the extended+i variant,
\* the count pass returns a row nnz of exactly 1 and the fill pass writes
\* exactly one entry of P for that row, column f2c[row] with value 1, and
\* nothing else.
C11_CoarseRowInjects ==
    [](CoarseCounted /\ CoarseRowOfP) /\ [][CoarseFillStep]_vars
C11_Witness ==
    /\ pc = "end"
    /\ DOMAIN csr_row_ptr_P = 0 .. nrow
    /\ \E row \in Rows : cf[row] = 1 /\ f2c[row] = 1
    /\ \E row \in Rows : cf[row] = 2 /\ row_nnz[row] = 1 /\ ext_row_nnz[row] = 2

\* the strong entries of `row` with a Coarse column whose value is <= 0.2
\* times the minimum, or >= 0.2 times the maximum, of 0 and the strong Coarse
\* values of the row
BandKept(row) ==
    LET SC == {j \in RowEntries(row) : S[j] /\ cf[csr_col_ind[j]] = 1}
        lo == SetMin({0} \cup {csr_val[j] : j \in SC})
        hi == SetMax({0} \cup {csr_val[j] : j \in SC})
    IN {j \in SC : AminDen * csr_val[j] <= lo \/ AminDen * csr_val[j] >= hi}

\* the direct count of a non-Coarse row is the number of those entries
DirectCountIsBandKept ==
    \A row \in Rows \cap DOMAIN row_nnz :
        cf[row] # 1 => row_nnz[row] = Cardinality(BandKept(row))

\* the step of the direct fill pass on a non-Coarse row writes the cells
\* P_ptr[row] .. P_ptr[row+1]-1 and no other: the i-th of them gets the
\* i-th of those entries in storage order, every cell written before keeps
\* its column and value
DirectFillStep ==
    \A row \in Rows : (Runs("direct_fill", row) /\ cf[row] # 1) =>
        LET range == prolong_csr_row_ptr[row] .. prolong_csr_row_ptr[row + 1] - 1 IN
        /\ DOMAIN prolong_csr_col_ind' = DOMAIN prolong_csr_col_ind \cup range
        /\ DOMAIN prolong_csr_val' = DOMAIN prolong_csr_val \cup range
        /\ range \cap DOMAIN prolong_csr_col_ind = {}
        /\ Cardinality(range) = Cardinality(BandKept(row))
        /\ \A j \in BandKept(row) :
            LET x == prolong_csr_row_ptr[row]
                       + Cardinality({k \in BandKept(row) : k < j}) IN
            /\ x \in range
            /\ prolong_csr_col_ind'[x] = f2c[csr_col_ind[j]]
        /\ \A x \in DOMAIN prolong_csr_col_ind :
            /\ prolong_csr_col_ind'[x] = prolong_csr_col_ind[x]
            /\ prolong_csr_val'[x] = prolong_csr_val[x]

\* C21: for every non-Coarse row the direct count pass counts exactly the
\* strong entries with a Coarse column whose value is <= Amin[row] or
\* >= Amax[row], and the fill pass writes exactly those entries, filling
\* every index of [P_ptr[row], P_ptr[row+1]) once and no index outside it.
C21_DirectFillMatchesCount ==
    []DirectCountIsBandKept /\ [][DirectFillStep]_vars

\* the direct fill pass has completed; a non-Coarse row has two strong
\* Coarse entries, one inside the band and dropped, one kept and written
C21_Witness ==
    /\ pc = "direct_fill"
    /\ done = Launched
    /\ \E row \in Rows :
        /\ cf[row] = 2
        /\ Cardinality(StrongCoarse(row)) = 2
        /\ row_nnz[row] = 1
        /\ prolong_csr_row_ptr[row] \in DOMAIN prolong_csr_col_ind

\* the divisions of the direct fill pass on `row` all have a nonzero divisor
DirectDivisorsNonzero(row) ==
    /\ cf_neg(row).d # 0
    /\ cf_pos(row).d # 0
    /\ alpha(row).d # 0
    /\ beta(row).d # 0
\* a degenerate divisor leaves the neutral value
DirectNeutralValues(row) ==
    /\ Degenerate(a_den(row) - d_neg(row)) => cf_neg(row) = Rat(1)
    /\ Degenerate(b_den(row) - d_pos(row)) => cf_pos(row) = Rat(1)
    /\ Degenerate(a_den(row)) => alpha(row) = Rat(0)
    /\ Degenerate(b_den(row)) => beta(row) = Rat(0)

\* C28 (as claimed): in the direct fill pass a correction factor whose
\* denominator a_den - d_neg or b_den - d_pos is degenerate stays 1, alpha
\* or beta whose denominator is degenerate is 0, and no division by zero is
\* performed for any Fine row, a row whose diagonal, folded or not, is zero
\* included.
C28_DirectDivisionsGuarded ==
    pc = "direct_fill" =>
        \A row \in Rows : cf[row] = 2 =>
            DirectNeutralValues(row) /\ DirectDivisorsNonzero(row)

\* what the tests of the code do guard: the neutral values, and every
\* divisor on a row whose diagonal after folding is not zero
DirectGuardedOffZeroDiagonal ==
    pc = "direct_fill" =>
        \A row \in Rows : cf[row] = 2 =>
            /\ DirectNeutralValues(row)
            /\ FoldedDiag(row) # 0 => DirectDivisorsNonzero(row)

\* ------------------------------------- claims on the extended+i passes

\* the distinct Coarse points that are strong neighbours of `row` or strong
\* neighbours of one of its strong non-Coarse neighbours
StrongNbrs(r) == {c \in Rows \ {r} : StrongEdge(r, c)}
CoarseFanout(row) ==
    {c \in StrongNbrs(row) : cf[c] = 1}
    \cup UNION {{c \in StrongNbrs(k) : cf[c] = 1} :
                    k \in {n \in StrongNbrs(row) : cf[n] # 1}}

\* C22: for every row, every S, cf and FF1, the estimate written to row_max
\* is at least the row nnz written by the deduplicated count pass, and at
\* least the number of keys the row's hash set is given; so a capacity of
\* the maximum estimate holds every row's keys.
C22_EstimateBoundsCount ==
    \A row \in Rows \cap DOMAIN row_max \cap DOMAIN ext_row_nnz :
        /\ row_max[row] >= ext_row_nnz[row]
        /\ cf[row] # 1 => row_max[row] >= Cardinality(ExtKeys(row))

\* both passes have completed; a non-Coarse row reaches one Coarse point
\* directly and through a non-Coarse neighbour: estimate 2 or more, count 1
C22_Witness ==
    /\ pc = "extpi_scan"
    /\ \E row \in Rows :
        /\ cf[row] = 2
        /\ row_max[row] >= 2
        /\ ext_row_nnz[row] = 1
        /\ \E k \in StrongNbrs(row) : cf[k] = 2 /\ CoarseFanout(row) \subseteq StrongNbrs(k)
        /\ \E c \in StrongNbrs(row) : cf[c] = 1

\* the Coarse points a strong non-Coarse neighbour k contributes: every
\* strong Coarse neighbour of k, or with FF1 only the column of the first
\* strong Coarse off-diagonal entry in k's storage order
FirstHops(k) ==
    LET H == {l \in RowEntries(k) :
                S[l] /\ csr_col_ind[l] # k /\ cf[csr_col_ind[l]] = 1}
    IN {csr_col_ind[l] : l \in {h \in H : \A g \in H : h <= g}}
CappedFanout(row) ==
    {c \in StrongNbrs(row) : cf[c] = 1}
    \cup UNION {IF FF1 THEN FirstHops(k) ELSE {c \in StrongNbrs(k) : cf[c] = 1} :
                    k \in {n \in StrongNbrs(row) : cf[n] # 1}}

\* the slots of the followed row's hash set that hold a key
Occupied == {s \in DOMAIN sdata : sdata[s] # empty_key}
\* each key is held by one slot, and the inserts that returned 1 are as many
\* as the keys held
OneWinnerPerKey ==
    /\ \A s1, s2 \in Occupied : sdata[s1] = sdata[s2] => s1 = s2
    /\ pc = "extpi_nnz_lanes" =>
        wf_reduce_sum([lid \in Lanes |-> lane[lid].nnz]) = Cardinality(Occupied)

\* C23 (as claimed): for a non-Coarse row whose distinct coarse fan-out fits
\* the hash capacity, the row nnz of the count pass is the number of
\* distinct Coarse points that are strong neighbours of the row or strong
\* neighbours of one of its strong non-Coarse neighbours, under every
\* interleaving of the lanes' inserts, one insert per key returning 1.
C23_CountIsDistinctFanout ==
    /\ OneWinnerPerKey
    /\ (pc = "end" /\ Cardinality(CoarseFanout(hrow)) <= HASHSIZE) =>
        ext_row_nnz[hrow] = Cardinality(CoarseFanout(hrow))

\* C23 (amended): the same with the fan-out the passes traverse: with FF1 a
\* strong non-Coarse neighbour contributes only its first strong Coarse
\* off-diagonal entry in storage order.
C23_CountIsCappedFanout ==
    /\ OneWinnerPerKey
    /\ (pc = "end" /\ Cardinality(CappedFanout(hrow)) <= HASHSIZE) =>
        ext_row_nnz[hrow] = Cardinality(CappedFanout(hrow))

\* the count is stored; both lanes inserted a key the other lane inserted
\* too, into a set whose keys all hash to one slot, and with FF1 a Coarse
\* point of the uncapped fan-out was not counted
C23_Witness ==
    /\ pc = "end"
    /\ hmul = 0
    /\ FF1
    /\ ext_row_nnz[hrow] = 1
    /\ Cardinality(CoarseFanout(hrow)) = 2
    /\ \E p \in LaneInserts(hrow, 0) : \E q \in LaneInserts(hrow, 1) :
        csr_col_ind[IF p[2] = -1 THEN p[1] ELSE p[2]]
            = csr_col_ind[IF q[2] = -1 THEN q[1] ELSE q[2]]

\* the count pass counted the keys the fill pass puts in the row's map
MapHoldsCountedKeys ==
    \A row \in Rows \cap DOMAIN ext_row_nnz : cf[row] # 1 =>
        /\ ExtKeys(row) = CappedFanout(row)
        /\ ext_row_nnz[row] = Cardinality(CappedFanout(row))

\* the step of the extended+i fill pass on a non-Coarse row writes the cells
\* P_ptr[row] .. P_ptr[row+1]-1 and no other: the key with n smaller keys
\* goes to P_ptr[row] + n, every cell written before keeps its content
ExtFillStep ==
    \A row \in Rows : (Runs("extpi_fill", row) /\ cf[row] # 1) =>
        LET range == csr_row_ptr_P[row] .. csr_row_ptr_P[row + 1] - 1 IN
        /\ DOMAIN csr_col_ind_P' = DOMAIN csr_col_ind_P \cup range
        /\ DOMAIN csr_val_P' = DOMAIN csr_val_P \cup range
        /\ range \cap DOMAIN csr_col_ind_P = {}
        /\ Cardinality(range) = Cardinality(CappedFanout(row))
        /\ \A key \in CappedFanout(row) :
            LET x == csr_row_ptr_P[row]
                       + Cardinality({k \in CappedFanout(row) : k < key}) IN
            /\ x \in range
            /\ csr_col_ind_P'[x] = f2c[key]
        /\ \A x \in DOMAIN csr_col_ind_P :
            /\ csr_col_ind_P'[x] = csr_col_ind_P[x]
            /\ csr_val_P'[x] = csr_val_P[x]

\* C24: in the extended+i fill pass the map of a non-Coarse row holds the
\* keys the count pass counted, a key's rank is the number of smaller keys
\* held (an empty slot adds nothing to a rank), and the pass writes every
\* index of [P_ptr[row], P_ptr[row+1]) once and no index outside it.
C24_ExtFillMatchesCount ==
    []MapHoldsCountedKeys /\ [][ExtFillStep]_vars

\* the fill pass has completed on a matrix stored in descending column
\* order; a non-Coarse row has two keys, written in ascending order
C24_Witness ==
    /\ pc = "extpi_fill"
    /\ done = Launched
    /\ csr_col_ind[0] # 0
    /\ \E row \in Rows :
        /\ cf[row] = 2
        /\ ext_row_nnz[row] = 2
        /\ csr_col_ind_P[csr_row_ptr_P[row]] < csr_col_ind_P[csr_row_ptr_P[row] + 1]

\* C25 (as claimed): in the extended+i fill pass, on a matrix with nonzero
\* diagonal entries, for every Fine row i and every strong Fine neighbour k
\* of i the sum by which a_ik is divided is nonzero, and the row denominator
\* sum_k + sum_n + a_ii is nonzero.
C25_NoZeroDenominator ==
    (pc = "extpi_fill" /\ \A r \in Rows : diag[r] # 0) =>
        \A i \in Rows : cf[i] = 2 =>
            /\ \A k \in FineStrong(i) : SumVals(SumLEntries(i, k)) # 0
            /\ LET den == RAdd(RAdd(Rat(sum_n(i)), sum_k(i)), Rat(diag[i]))
               IN den.d # 0 /\ den.n # 0

\* the entries of the row of the strong Fine entry k that the sum dividing
\* a_ik is claimed to collect: the entry of column i and the entries at Coarse
\* columns of row i's map, each if its sign differs from the sign of the
\* diagonal of row k
ClaimedSumLEntries(row, k) ==
    {l \in RowEntries(csr_col_ind[k]) :
        /\ (diag[csr_col_ind[k]] >= 0) # (csr_val[l] >= 0)
        /\ \/ csr_col_ind[l] = row
           \/ /\ cf[csr_col_ind[l]] = 1
              /\ csr_col_ind[l] \in ExtKeys(row)}

\* C26 (as claimed): in the extended+i fill pass, for every Fine row i and
\* every strong Fine neighbour k, the sum that divides a_ik runs over the
\* entries a_kl with l = i or l Coarse in row i's map whose sign differs from
\* the sign of k's own diagonal a_kk, whatever the signs of the two diagonals.
C26_SumLUsesNeighbourDiagonal ==
    pc = "extpi_fill" =>
        \A i \in Rows : cf[i] = 2 =>
            \A k \in FineStrong(i) :
                SumLEntries(i, k) = ClaimedSumLEntries(i, k)

\* where the diagonals of i and k have the same sign the two readings agree
SumLAgreesOnEqualSigns ==
    pc = "extpi_fill" =>
        \A i \in Rows : cf[i] = 2 =>
            \A k \in FineStrong(i) :
                pos_ii(i) = pos_ii(csr_col_ind[k]) =>
                    SumLEntries(i, k) = ClaimedSumLEntries(i, k)

\* the entries of the non-Coarse point k that contribute a second-hop Coarse
\* point: its strong off-diagonal entries of Coarse columns, all of them, or
\* with FF1 the one that no other precedes in k's storage
ContributingEntries(k) ==
    LET H == {l \in RowEntries(k) :
                S[l] /\ csr_col_ind[l] # k /\ cf[csr_col_ind[l]] = 1}
    IN IF FF1 THEN {h \in H : \A g \in H : h <= g} ELSE H
\* the Coarse points of a row: met directly, or contributed by a neighbour
SelectedPoints(row) ==
    {csr_col_ind[j] : j \in {e \in StrongOff(row) : cf[csr_col_ind[e]] = 1}}
    \cup UNION {{csr_col_ind[l] : l \in ContributingEntries(csr_col_ind[j])} :
                    j \in {e \in StrongOff(row) : cf[csr_col_ind[e]] # 1}}

\* C27: in the estimate, count and fill passes of extended+i each strong
\* non-Coarse neighbour of a row contributes every strong Coarse entry of
\* its row when FF1 is false and, when FF1 is true, at most one: the first
\* strong Coarse off-diagonal entry in its storage order; the three passes
\* select the same points.
C27_FF1FirstInStorageOrder ==
    \A row \in Rows : cf[row] # 1 =>
        /\ FF1 => \A j \in StrongOff(row) :
                    Cardinality(ContributingEntries(csr_col_ind[j])) <= 1
        /\ row \in DOMAIN row_max =>
            row_max[row] =
                SumF([j \in StrongOff(row) |->
                        IF cf[csr_col_ind[j]] = 1 THEN 1
                        ELSE Cardinality(ContributingEntries(csr_col_ind[j]))],
                     StrongOff(row))
        /\ row \in DOMAIN ext_row_nnz =>
            ext_row_nnz[row] = Cardinality(SelectedPoints(row))
        /\ (pc = "extpi_fill" /\ row \in done) =>
            {csr_col_ind_P[x] :
                x \in csr_row_ptr_P[row] .. csr_row_ptr_P[row + 1] - 1}
                = {f2c[c] : c \in SelectedPoints(row)}

\* the three passes have completed with FF1 on rows stored in descending
\* column order: a Fine row has one strong entry, of a Fine neighbour with
\* two strong Coarse entries, and its row of P holds the one stored first,
\* which is the larger column
C27_Witness ==
    /\ pc = "extpi_fill"
    /\ done = Launched
    /\ FF1
    /\ csr_col_ind[0] # 0
    /\ \E row \in Rows : \E j \in StrongOff(row) :
        /\ cf[row] = 2
        /\ StrongOff(row) = {j}
        /\ cf[csr_col_ind[j]] = 2
        /\ Cardinality(SecondHop(csr_col_ind[j])) = 2
        /\ row_max[row] = 1
        /\ ext_row_nnz[row] = 1
        /\ csr_col_ind_P[csr_row_ptr_P[row]]
            = f2c[SetMax({csr_col_ind[l] : l \in SecondHop(csr_col_ind[j])})]

\* ------------------------------------------------ claims on every kernel

\* a thread (lane group) whose row index is not below nrow returns in this step
OobReturns == \E row \in Launched : row >= nrow /\ row \notin done /\ row \in done'

\* C12: in every kernel a thread or lane group whose computed row index is
\* greater than or equal to nrow writes no output cell and reads no cell of
\* cf: S, omega, cf, workspace, the flag, f2c, Amin, Amax, the row nnz arrays
\* and P are left unchanged by it.
C12_OutOfBoundsInert ==
    [][OobReturns =>
        UNCHANGED <<S, omega, cf, workspace, undecided, cf_rd, cf_wr,
                    directVars, extpiVars, compVars>>]_vars
C12_Witness ==
    /\ grid > nrow
    /\ pc = "extpi_fill"
    /\ done = Launched
    /\ \E row \in Rows : cf[row] = 1

\* ------------------------------------------------ claims on the compressor

\* the thread of the fill pass has returned for `row`
Compressed(row) ==
    \/ pc = "compress_fill" /\ row \in done
    \/ pc = "end" /\ DOMAIN comp_csr_row_ptr = 0 .. nrow
\* sum(P_compressed[row]) == sum(P_original[row])
RowSumKept(row) ==
    /\ CompRange(row) \subseteq DOMAIN comp_csr_val
    /\ REq(RSum(comp_csr_val, CompRange(row)), Rat(row_sum(row)))

\* C10 (as claimed): for every row of P and every truncation ratio, after the
\* compressor's fill pass the sum of the values of the compressed row equals
\* the sum of the values of the original row.
C10_RowSumPreserved ==
    \A row \in Rows : Compressed(row) => RowSumKept(row)

\* C10 (amended): the same for every row whose kept entries have a nonzero
\* sum; when that sum is zero the scale factor is a division by zero.
C10_RowSumPreservedNonzeroKept ==
    \A row \in Rows :
        (Compressed(row) /\ comp_row_sum(row) # 0) => RowSumKept(row)
C10_Witness ==
    /\ pc = "end"
    /\ DOMAIN comp_csr_row_ptr = 0 .. nrow
    /\ \E row \in Rows :
        /\ comp_row_sum(row) # 0
        /\ KeptEntries(row) # RowEntries(row)
        /\ row_sum(row) # comp_row_sum(row)
        /\ RowSumKept(row)


\* the entries of `row` whose magnitude is at least the truncation ratio
\* times the largest magnitude of the row
AtLeastRatioOfMax(row) ==
    {j \in RowEntries(row) :
        \E m \in RowEntries(row) :
            /\ \A k \in RowEntries(row) : hip_abs(csr_val[k]) <= hip_abs(csr_val[m])
            /\ hip_abs(csr_val[j]) * trunc.den >= trunc.num * hip_abs(csr_val[m])}
\* the count pass stored their number
CompCountIsKept ==
    \A row \in Rows \cap DOMAIN row_nnz :
        row_nnz[row] = Cardinality(AtLeastRatioOfMax(row))
\* the step of the fill pass on `row` writes the cells comp_ptr[row] ..
\* comp_ptr[row+1]-1 and no other: the i-th kept entry in storage order goes
\* to comp_ptr[row] + i with its column index and its value times the scale
CompFillStep ==
    \A row \in Rows : Runs("compress_fill", row) =>
        LET range == comp_csr_row_ptr[row] .. comp_csr_row_ptr[row + 1] - 1 IN
        /\ DOMAIN comp_csr_col_ind' = DOMAIN comp_csr_col_ind \cup range
        /\ DOMAIN comp_csr_val' = DOMAIN comp_csr_val \cup range
        /\ range \cap DOMAIN comp_csr_col_ind = {}
        /\ Cardinality(range) = Cardinality(AtLeastRatioOfMax(row))
        /\ \A j \in AtLeastRatioOfMax(row) :
            LET x == comp_csr_row_ptr[row]
                       + Cardinality({k \in AtLeastRatioOfMax(row) : k < j}) IN
            /\ x \in range
            /\ comp_csr_col_ind'[x] = csr_col_ind[j]
            /\ comp_csr_val'[x] = RMul(Rat(csr_val[j]), scale(row))
        /\ \A x \in DOMAIN comp_csr_col_ind :
            /\ comp_csr_col_ind'[x] = comp_csr_col_ind[x]
            /\ comp_csr_val'[x] = comp_csr_val[x]

\* C29: for every row and truncation ratio the compressor's fill pass keeps
\* exactly the entries of magnitude >= ratio times the row's maximum
\* magnitude, in their original order and with their column indices; their
\* number is the row nnz of the count pass, and the fill pass writes and
\* rescales exactly the indices of [comp_ptr[row], comp_ptr[row+1]).
C29_CompressFillMatchesCount ==
    []CompCountIsKept /\ [][CompFillStep]_vars

\* the fill pass has completed; a row of three entries kept its first and
\* its last entry and dropped the one between them
C29_Witness ==
    /\ pc = "compress_fill"
    /\ done = Launched
    /\ \E row \in Rows :
        /\ csr_row_ptr[row + 1] - csr_row_ptr[row] = 3
        /\ AtLeastRatioOfMax(row) = {csr_row_ptr[row], csr_row_ptr[row] + 2}
        /\ row_nnz[row] = 2
        /\ comp_csr_col_ind[comp_csr_row_ptr[row]] = csr_col_ind[csr_row_ptr[row]]
        /\ comp_csr_col_ind[comp_csr_row_ptr[row] + 1]
            = csr_col_ind[csr_row_ptr[row] + 2]

====
